---- MODULE Spec2Model ----
(***************************************************************************)
(* Model of the image SEO batch tool (App component and ImageAnalyzer).    *)
(*                                                                         *)
(* Strings are sequences of one-character strings.  A CJK ideograph is     *)
(* written as one symbol "U<code point>" or as its pinyin syllable (the    *)
(* module is ASCII); such a symbol counts as ONE character.                *)
(*                                                                         *)
(* React state is modelled as the committed state of the last render.      *)
(* A callback closes over the state of the render that created it, so an   *)
(* asynchronous run (processImages, compressSingleImage) or a timer        *)
(* callback carries the values it read from that render, while the         *)
(* functional updates (setFiles(prev => ...)) act on the current state.    *)
(***************************************************************************)
EXTENDS Integers, Sequences, FiniteSets, TLC

VARIABLES
  files,            \* useState<InputImage[]>
  processed,        \* useState<ProcessedImage[]>
  keyword,          \* useState('') global keyword
  isProcessing,     \* useState(false)
  message,          \* useState<string | null>
  editingItemId,    \* useState<string | null>
  editingKeyword,   \* useState<string>
  batch,            \* the processImages call in flight (its closure and locals)
  singles,          \* the compressSingleImage calls in flight
  timers,           \* pending setTimeout(() => compressSingleImage(id), 300)
  resetAll,         \* pending 500 ms timers of processImages
  resetOne,         \* pending 500 ms timers of compressSingleImage
  liveUrls,         \* object URLs created by URL.createObjectURL and not revoked
  nextUrl,          \* next fresh object URL
  nextId,           \* next fresh image id
  hist,             \* history: what happened to each id, last submission
  fnIn,             \* argument of the pure function under check
  fnOut             \* its result

vars == <<files, processed, keyword, isProcessing, message, editingItemId,
          editingKeyword, batch, singles, timers, resetAll, resetOne,
          liveUrls, nextUrl, nextId, hist, fnIn, fnOut>>

appVars == <<files, processed, keyword, isProcessing, message, editingItemId,
             editingKeyword, batch, singles, timers, resetAll, resetOne,
             liveUrls, nextUrl, nextId, hist>>

-----------------------------------------------------------------------------
(* Bounds                                                                  *)

MaxLen == 4            \* longest keyword text given to sanitizeKeyword
MaxImages == 2         \* image ids ever accepted in the orchestrator runs
MaxTransforms == 3     \* processSingleImage calls started in one behaviour
MaxTimers == 1         \* compressSingleImage timers pending at once
MaxSubmit == 12        \* longest file list of one submission (acceptance runs)
MaxAcceptIds == 12     \* image ids ever accepted in one acceptance run
MaxWords == 3          \* most words in one file name given to the classifier
MaxDeletes == 1        \* deletions in one acceptance run

-----------------------------------------------------------------------------
(* Characters and strings                                                  *)

\* undefined where a string is expected (no string: its one symbol is no character)
Undefined == <<"undefined">>
\* null where a ProcessedImage is expected
Null == [null |-> TRUE]
\* null where an id is expected; undefined where a progress number is expected
NoId == 0
NoProgress == -1

LowerChars == {"a", "b", "c", "d", "e", "f", "g", "h", "i", "j", "k", "l", "m",
               "n", "o", "p", "q", "r", "s", "t", "u", "v", "w", "x", "y", "z"}
DigitChars == {"0", "1", "2", "3", "4", "5", "6", "7", "8", "9"}
CjkChars == {"U4E2D", "U6587"}
WhiteChars == {" ", "\t"}

UpperSeq == <<"A", "B", "C", "D", "E", "F", "G", "H", "I", "J", "K", "L", "M",
             "N", "O", "P", "Q", "R", "S", "T", "U", "V", "W", "X", "Y", "Z">>
LowerSeq == <<"a", "b", "c", "d", "e", "f", "g", "h", "i", "j", "k", "l", "m",
             "n", "o", "p", "q", "r", "s", "t", "u", "v", "w", "x", "y", "z">>

toLowerChar(c) ==
  IF \E k \in 1..26 : UpperSeq[k] = c
  THEN LowerSeq[CHOOSE k \in 1..26 : UpperSeq[k] = c]
  ELSE c

toLowerCase(s) == [i \in 1..Len(s) |-> toLowerChar(s[i])]

RECURSIVE trimStart(_)
trimStart(s) ==
  IF s # <<>> /\ Head(s) \in WhiteChars THEN trimStart(Tail(s)) ELSE s

RECURSIVE trimEnd(_)
trimEnd(s) ==
  IF s # <<>> /\ s[Len(s)] \in WhiteChars THEN trimEnd(SubSeq(s, 1, Len(s) - 1)) ELSE s

trim(s) == trimEnd(trimStart(s))

\* .replace(/[^a-z0-9一-龥\s-]/g, '')
KeepChar(c) == c \in LowerChars \cup DigitChars \cup CjkChars \cup WhiteChars \cup {"-"}
stripOther(s) == SelectSeq(s, KeepChar)

\* .replace(/X+/g, c) for a character class X: every maximal run becomes one c
RECURSIVE replaceRuns(_, _, _)
replaceRuns(s, X, c) ==
  IF s = <<>> THEN <<>>
  ELSE IF Head(s) \in X
       THEN IF Len(s) > 1 /\ s[2] \in X
            THEN replaceRuns(Tail(s), X, c)
            ELSE <<c>> \o replaceRuns(Tail(s), X, c)
       ELSE <<Head(s)>> \o replaceRuns(Tail(s), X, c)

sanitizeKeyword_swapped(value) ==
  replaceRuns(replaceRuns(stripOther(toLowerCase(trim(value))), {"-"}, "-"), WhiteChars, "-")

sanitizeKeyword(value) ==
  replaceRuns(replaceRuns(stripOther(toLowerCase(trim(value))), WhiteChars, "-"), {"-"}, "-")


-----------------------------------------------------------------------------
(* Naming                                                                  *)

JPEG == "image/jpeg"
PNG == "image/png"
WEBP == "image/webp"
HEIC == "image/heic"
HEIF == "image/heif"
GIF == "image/gif"

\* const mimeToExt: Record<string, string>; a missing key reads as undefined
mimeToExt(type) ==
  CASE type = JPEG -> <<"j", "p", "g">>
    [] type = PNG -> <<"p", "n", "g">>
    [] type = WEBP -> <<"w", "e", "b", "p">>
    [] OTHER -> Undefined

\* a || b on strings and undefined: the empty string and undefined are falsy
OrElse(a, b) == IF a = Undefined \/ a = <<>> THEN b ELSE a

DigitOf(d) == SubSeq(<<"0", "1", "2", "3", "4", "5", "6", "7", "8", "9">>, d + 1, d + 1)

\* String(n) for a natural number n
RECURSIVE String(_)
String(n) == IF n < 10 THEN DigitOf(n) ELSE String(n \div 10) \o DigitOf(n % 10)

\* s.padStart(targetLength, '0')
RECURSIVE padStart(_, _)
padStart(s, targetLength) ==
  IF Len(s) >= targetLength THEN s ELSE padStart(<<"0">> \o s, targetLength)

\* const indexStr = String(index + 1).padStart(2, '0')
indexStr(index) == padStart(String(index + 1), 2)

\* const cleanKeyword = sanitizeKeyword(keywordToUse) || 'product'
cleanKeyword(keywordToUse) ==
  OrElse(sanitizeKeyword(keywordToUse), <<"p", "r", "o", "d", "u", "c", "t">>)

seoName_unpadded(keywordToUse, index, ext) ==
  cleanKeyword(keywordToUse) \o <<"-">> \o String(index + 1) \o <<".">> \o ext

\* `${cleanKeyword}-${indexStr}.${ext}`
seoName(keywordToUse, index, ext) ==
  cleanKeyword(keywordToUse) \o <<"-">> \o indexStr(index) \o <<".">> \o ext

-----------------------------------------------------------------------------
(* processSingleImage                                                      *)

TargetTypes == {JPEG, PNG, WEBP}

\* const originalType = input.file.type || 'image/jpeg'
originalType(file) == IF file.type = "" THEN JPEG ELSE file.type

preferredType(file) ==
  IF originalType(file) \in TargetTypes THEN originalType(file) ELSE JPEG

canAdjustQuality(file) == preferredType(file) \in {JPEG, WEBP}

targetBytes == 200 * 1024

\* quality in hundredths; undefined for a type without a quality parameter
NoQuality == -1

\* +(bytes / 1024).toFixed(1), in tenths of a KiB (ties round up)
toFixed1Kb(bytes) == (bytes * 20 + 1024) \div 2048

encodeCalls_noRetry(file, env) ==
  <<[quality |-> IF canAdjustQuality(file) THEN 78 ELSE NoQuality, size |-> env.enc[1]]>>

\* The canvas.toBlob calls of one transform, in order.  env.enc[k] is the size
\* of the blob the k-th call produces, or -1 when the callback receives null.
encodeCalls(file, env) ==
  IF env.enc[1] < 0 THEN <<[quality |-> IF canAdjustQuality(file) THEN 78 ELSE NoQuality,
                           size |-> -1]>>
  ELSE IF canAdjustQuality(file) /\ env.enc[1] > targetBytes
       THEN <<[quality |-> 78, size |-> env.enc[1]], [quality |-> 60, size |-> env.enc[2]]>>
       ELSE <<[quality |-> IF canAdjustQuality(file) THEN 78 ELSE NoQuality,
               size |-> env.enc[1]]>>

\* the extension of the output name: the preferred type's, or on fallback
\* mimeToExt[originalType] || ext
outputExt(file, fallback) ==
  LET ext == OrElse(mimeToExt(preferredType(file)), <<"j", "p", "g">>)
  IN IF fallback THEN OrElse(mimeToExt(originalType(file)), ext) ELSE ext

savedPercent_unclamped(originalKb10, finalBytes) ==
  IF originalKb10 > 0
  THEN (((1024 * originalKb10 - 10 * finalBytes) \div 1024) * 1000) \div originalKb10
  ELSE 0

\* Math.max(0, +(((originalSizeKb - finalBlob.size / 1024) / originalSizeKb) * 100).toFixed(1)),
\* in tenths of a percent; originalSizeKb is given in tenths of a KiB
savedPercent(originalKb10, finalBytes) ==
  IF originalKb10 > 0
  THEN LET num == 1024 * originalKb10 - 10 * finalBytes
           den == 1024 * originalKb10
           \* num / den to three decimals, digit by digit (keeps the products small)
           d1 == (num * 10) \div den
           r1 == (num * 10) % den
           d2 == (r1 * 10) \div den
           r2 == (r1 * 10) % den
           d3 == (r2 * 10) \div den
           r3 == (r2 * 10) % den
       IN IF num <= 0 THEN 0
          ELSE d1 * 100 + d2 * 10 + d3 + (IF 2 * r3 >= den THEN 1 ELSE 0)
  ELSE 0

\* The result of processSingleImage(input, keywordToUse, forceSquareToUse, index):
\* Null when a step throws (decode, canvas context, toBlob), else the record.
\* env holds what the browser answers; url is the fresh object URL.
processSingleImage(input, keywordToUse, index, env, url) ==
  LET calls == encodeCalls(input.file, env)
      outputBlob == [type |-> preferredType(input.file), size |-> calls[Len(calls)].size,
                     data |-> "encoded"]
      fallback == outputBlob.size > input.file.size
      finalBlob == IF fallback THEN input.file ELSE outputBlob
      originalSizeKb == toFixed1Kb(input.file.size)
  IN IF ~env.decoded \/ ~env.ctx \/ calls[Len(calls)].size < 0
     THEN Null
     ELSE [id |-> input.id,
           seoName |-> seoName(keywordToUse, index, outputExt(input.file, fallback)),
           blob |-> finalBlob,
           sizeKb |-> toFixed1Kb(finalBlob.size),
           originalSizeKb |-> originalSizeKb,
           savedPercent |-> savedPercent(originalSizeKb, finalBlob.size),
           downloadUrl |-> url]

-----------------------------------------------------------------------------
(* App state: helpers                                                      *)

MAX_FILES == 10

AllowList == {JPEG, PNG, WEBP, HEIC, HEIF}

NoMessage == "null"

Min(a, b) == IF a < b THEN a ELSE b

Ids(seq) == {seq[k].id : k \in 1..Len(seq)}
Urls(seq) == {seq[k].downloadUrl : k \in 1..Len(seq)}

\* prev.map((f) => f.id === id ? { ...f, isProcessing, processingProgress } : f)
setFileState(prev, id, isProc, progress) ==
  [k \in 1..Len(prev) |->
     IF prev[k].id = id
     THEN [prev[k] EXCEPT !.isProcessing = isProc, !.processingProgress = progress]
     ELSE prev[k]]

\* prev.map((f) => f.id === id ? { ...f, processingProgress } : f)
setFileProgress(prev, id, progress) ==
  [k \in 1..Len(prev) |->
     IF prev[k].id = id THEN [prev[k] EXCEPT !.processingProgress = progress] ELSE prev[k]]

\* prev.map((f) => ({ ...f, isProcessing, processingProgress }))
setAllFileStates(prev, isProc, progress) ==
  [k \in 1..Len(prev) |->
     [prev[k] EXCEPT !.isProcessing = isProc, !.processingProgress = progress]]

\* prev.filter((x) => x.id !== id)
RECURSIVE filterOut(_, _)
filterOut(prev, id) ==
  IF prev = <<>> THEN <<>>
  ELSE IF Head(prev).id = id THEN filterOut(Tail(prev), id)
       ELSE <<Head(prev)>> \o filterOut(Tail(prev), id)

\* files.findIndex((f) => f.id === id), 0-based, -1 when absent
findIndex(seq, id) ==
  IF id \in Ids(seq) THEN (CHOOSE k \in 1..Len(seq) :
                              seq[k].id = id /\ \A j \in 1..(k - 1) : seq[j].id # id) - 1
  ELSE -1

\* the downloadUrl of processed.find((p) => p.id === id), as a set (empty when absent)
foundUrl(seq, id) ==
  IF findIndex(seq, id) < 0 THEN {} ELSE {seq[findIndex(seq, id) + 1].downloadUrl}

\* what the list renders for one item
matched(id) == id \in Ids(processed)

isProcessingSingle(item) ==
  item.isProcessing \/ (isProcessing /\ Len(files) = 1 /\ files[1].id = item.id)

canProcess == trim(keyword) # <<>> /\ Len(files) > 0 /\ ~isProcessing

hasProcessedImages == Len(processed) > 0

\* The inline editor holds the focus while it is open: any click or key
\* elsewhere blurs it first (onBlur commits the edit), so the other user
\* operations start from a state without an open editor.
NoEditorOpen == editingItemId = NoId

\* a File as the browser hands it over
File(name, type, size) == [name |-> name, type |-> type, size |-> size, data |-> "original"]

NoSub == [fileList |-> <<>>, before |-> <<>>]

InitApp ==
  /\ files = <<>>
  /\ processed = <<>>
  /\ keyword = <<>>
  /\ isProcessing = FALSE
  /\ message = NoMessage
  /\ editingItemId = NoId
  /\ editingKeyword = <<>>
  /\ batch = [pc |-> "idle", last |-> [ids |-> <<>>, outcome |-> <<>>]]
  /\ singles = <<>>
  /\ timers = <<>>
  /\ resetAll = 0
  /\ resetOne = <<>>
  /\ liveUrls = {}
  /\ nextUrl = 1
  /\ nextId = 1
  /\ hist = [ord |-> <<>>, deleted |-> {}, sub |-> NoSub, blank |-> {}, cleared |-> FALSE]

-----------------------------------------------------------------------------
(* handleFiles, deleteSingleImage, handleClear                             *)

\* Array.from(fileList).filter((f) => [...].includes(f.type))
incomingOf(fileList) == SelectSeq(fileList, LAMBDA f : f.type \in AllowList)

slicedOf_whole(fileList, n) == incomingOf(fileList)

\* incoming.slice(0, remainingSlots) for remainingSlots >= 0
slicedOf(fileList, n) ==
  SubSeq(incomingOf(fileList), 1, Min(MAX_FILES - n, Len(incomingOf(fileList))))

mappedOf(fileList, n, firstId) ==
  [k \in 1..Len(slicedOf(fileList, n)) |->
     [id |-> firstId + k - 1,
      file |-> slicedOf(fileList, n)[k],
      customKeyword |-> Undefined,
      isProcessing |-> FALSE,
      processingProgress |-> NoProgress]]

handleFiles(fileList) ==
  LET mapped == mappedOf(fileList, Len(files), nextId)
  IN IF incomingOf(fileList) = <<>>
     THEN /\ message' = "messageInvalidType"
          /\ UNCHANGED <<files, processed, nextId>>
     ELSE /\ message' = IF Len(files) + Len(mapped) >= MAX_FILES
                        THEN "messageLimit" ELSE NoMessage
          /\ files' = files \o mapped
          /\ processed' = <<>>
          /\ nextId' = nextId + Len(mapped)

deleteSingleImage(imageId) ==
  /\ files' = filterOut(files, imageId)
  /\ processed' = filterOut(processed, imageId)
  /\ liveUrls' = liveUrls \ foundUrl(processed, imageId)

handleClear ==
  /\ liveUrls' = liveUrls \ Urls(processed)
  /\ files' = <<>>
  /\ processed' = <<>>
  /\ keyword' = <<>>
  /\ message' = NoMessage

-----------------------------------------------------------------------------
(* processImages                                                           *)

\* What a closure keeps of the render's files: an asynchronous call reads only
\* id, file and customKeyword of the InputImages it closed over (forceSquare is
\* never set), so the closure is modelled by these fields.
inputsOf(fs) ==
  [k \in 1..Len(fs) |-> [id |-> fs[k].id, file |-> fs[k].file,
                         customKeyword |-> fs[k].customKeyword]]

\* Math.floor(((i + 1) / files.length) * 90)
progressOf(i, n) == ((i + 1) * 90) \div n

\* const keywordToUse = input.customKeyword || keyword
keywordToUse(input, kw) == OrElse(input.customKeyword, kw)

\* The for loop of processImages from iteration run.i up to its next await
\* (pc = "await": processSingleImage is running for run.files[run.i + 1]) or
\* to its end (pc = "done").  fs is the current files state, which the
\* functional setFiles updates act on; run is the call's closure and locals.
RECURSIVE batchLoop(_, _)
batchLoop(fs, run) ==
  IF run.i >= Len(run.files)
  THEN [files |-> fs, run |-> [run EXCEPT !.pc = "done"]]
  ELSE LET input == run.files[run.i + 1]
       IN IF trim(keywordToUse(input, run.keyword)) = <<>>
          THEN batchLoop(setFileState(fs, input.id, FALSE, NoProgress),
                         [run EXCEPT !.i = @ + 1, !.outcome = Append(@, "skipped")])
          ELSE [files |-> setFileProgress(fs, input.id, progressOf(run.i, Len(run.files))),
                run |-> [run EXCEPT !.pc = "await"]]

\* the variant whose loop ends at the first failed transform
batchAfter_abort(fs, run, result) ==
  IF result # Null
  THEN batchLoop(setFileState(fs, run.files[run.i + 1].id, FALSE, 100),
                 [run EXCEPT !.i = @ + 1, !.results = Append(@, result),
                             !.outcome = Append(@, "ok")])
  ELSE [files |-> setFileState(fs, run.files[run.i + 1].id, FALSE, NoProgress),
        run |-> [run EXCEPT !.pc = "done", !.outcome = Append(@, "failed")]]

\* the variant that leaves the state of an image whose transform failed as it is
batchAfter_leaveFailed(fs, run, result) ==
  IF result # Null
  THEN batchLoop(setFileState(fs, run.files[run.i + 1].id, FALSE, 100),
                 [run EXCEPT !.i = @ + 1, !.results = Append(@, result),
                             !.outcome = Append(@, "ok")])
  ELSE batchLoop(fs, [run EXCEPT !.i = @ + 1, !.outcome = Append(@, "failed")])

\* what follows `await processSingleImage(...)` in iteration run.i
batchAfter(fs, run, result) ==
  IF result # Null
  THEN batchLoop(setFileState(fs, run.files[run.i + 1].id, FALSE, 100),
                 [run EXCEPT !.i = @ + 1, !.results = Append(@, result),
                             !.outcome = Append(@, "ok")])
  ELSE batchLoop(setFileState(fs, run.files[run.i + 1].id, FALSE, NoProgress),
                 [run EXCEPT !.i = @ + 1, !.outcome = Append(@, "failed")])

batchSettle_alwaysDone(st) ==
  /\ files' = st.files
  /\ IF st.run.pc = "done"
     THEN /\ processed' = st.run.results
          /\ isProcessing' = FALSE
          /\ message' = "messageDone"
          /\ resetAll' = resetAll + 1
          /\ batch' = [pc |-> "idle",
                        last |-> [ids |-> [k \in 1..Len(st.run.files) |-> st.run.files[k].id],
                                  outcome |-> st.run.outcome]]
     ELSE /\ batch' = st.run
          /\ UNCHANGED <<processed, resetAll>>
          /\ isProcessing' = IF batch.pc = "idle" THEN TRUE ELSE isProcessing
          /\ message' = IF batch.pc = "idle" THEN "messageProcessing" ELSE message

\* the state updates of processImages once its loop has stopped at st
batchSettle(st) ==
  /\ files' = st.files
  /\ IF st.run.pc = "done"
     THEN /\ processed' = st.run.results
          /\ isProcessing' = FALSE
          /\ message' = IF Len(st.run.results) > 0 THEN "messageDone" ELSE "messageFail"
          /\ resetAll' = resetAll + 1
          /\ batch' = [pc |-> "idle",
                        last |-> [ids |-> [k \in 1..Len(st.run.files) |-> st.run.files[k].id],
                                  outcome |-> st.run.outcome]]
     ELSE /\ batch' = st.run
          /\ UNCHANGED <<processed, resetAll>>
          /\ isProcessing' = IF batch.pc = "idle" THEN TRUE ELSE isProcessing
          /\ message' = IF batch.pc = "idle" THEN "messageProcessing" ELSE message

processImages ==
  /\ Len(files) > 0 /\ trim(keyword) # <<>>
  /\ liveUrls' = liveUrls \ Urls(processed)
  /\ nextUrl' = nextUrl + Len(files)
  /\ batchSettle(batchLoop(setAllFileStates(files, TRUE, 0),
                           [pc |-> "start", files |-> inputsOf(files), keyword |-> keyword,
                            i |-> 0, results |-> <<>>, outcome |-> <<>>, urlBase |-> nextUrl]))

\* the transform of the batch's current image completes with the browser's answer env
processImagesResume(env) ==
  LET input == batch.files[batch.i + 1]
      result == processSingleImage(input, keywordToUse(input, batch.keyword), batch.i, env,
                                   batch.urlBase + batch.i)
  IN /\ liveUrls' = IF result # Null THEN liveUrls \cup {result.downloadUrl} ELSE liveUrls
     /\ batchSettle(batchAfter(files, batch, result))

-----------------------------------------------------------------------------
(* The inline keyword editor                                               *)

\* onClick of file-edit-icon, rendered when !matched && !isProcessingSingle
startEdit(item) ==
  /\ ~matched(item.id) /\ ~isProcessingSingle(item)
  /\ editingItemId' = item.id
  /\ editingKeyword' = OrElse(item.customKeyword, <<>>)

\* onChange of file-inline-input
changeEdit(value) ==
  /\ editingItemId # NoId
  /\ editingKeyword' = value

\* prev.map((f) => f.id === id ? { ...f, customKeyword: editingKeyword.trim() || undefined } : f)
setCustomKeyword(prev, id, text) ==
  [k \in 1..Len(prev) |->
     IF prev[k].id = id THEN [prev[k] EXCEPT !.customKeyword = OrElse(trim(text), Undefined)]
     ELSE prev[k]]

\* The closure of the compressSingleImage that the render holds: the timer
\* callback () => compressSingleImage(item.id) keeps the files, keyword and
\* processed of the render in which the key was pressed.  Of processed the
\* call reads only processed.find((p) => p.id === imageId)?.downloadUrl.
\* `after` is history, not read by the code: the effective keyword of the
\* image once the edit being committed is applied.
closureOf(imageId) ==
  [imageId |-> imageId, files |-> inputsOf(files), keyword |-> keyword,
   existing |-> foundUrl(processed, imageId),
   after |-> keywordToUse([customKeyword |-> OrElse(trim(editingKeyword), Undefined)],
                          keyword)]

\* onKeyDown (Enter) and onBlur of file-inline-input
commitEdit ==
  /\ editingItemId \in Ids(files)
  /\ files' = setCustomKeyword(files, editingItemId, editingKeyword)
  /\ editingItemId' = NoId
  /\ editingKeyword' = <<>>
  /\ timers' = IF matched(editingItemId) THEN Append(timers, closureOf(editingItemId))
               ELSE timers

\* onKeyDown (Escape)
cancelEdit ==
  /\ editingItemId # NoId
  /\ editingItemId' = NoId
  /\ editingKeyword' = <<>>

-----------------------------------------------------------------------------
(* compressSingleImage                                                     *)

RemoveAt(seq, k) == SubSeq(seq, 1, k - 1) \o SubSeq(seq, k + 1, Len(seq))

\* compressSingleImage(c.imageId) up to its await, run in the closure c
compressSingleImage(c) ==
  LET index == findIndex(c.files, c.imageId)
      image == c.files[index + 1]
  IN IF index < 0
     THEN UNCHANGED <<files, message, liveUrls, singles, nextUrl>>
     ELSE IF trim(keywordToUse(image, c.keyword)) = <<>>
     THEN /\ message' = "enterKeywordFirst"
          /\ UNCHANGED <<files, liveUrls, singles, nextUrl>>
     ELSE /\ liveUrls' = liveUrls \ c.existing
          /\ files' = setFileState(files, c.imageId, TRUE, 0)
          /\ singles' = Append(singles, [imageId |-> c.imageId, image |-> image,
                                         keywordToUse |-> keywordToUse(image, c.keyword),
                                         index |-> index, url |-> nextUrl,
                                         after |-> c.after])
          /\ nextUrl' = nextUrl + 1
          /\ UNCHANGED message

\* the 300 ms timer of commitEdit fires
timerFire(k) ==
  /\ compressSingleImage(timers[k])
  /\ timers' = RemoveAt(timers, k)

\* one tick of progressInterval of the call singles[k]
progressTick(k) ==
  files' = [j \in 1..Len(files) |->
              IF /\ files[j].id = singles[k].imageId
                 /\ files[j].isProcessing
                 /\ files[j].processingProgress # NoProgress
              THEN [files[j] EXCEPT !.processingProgress = Min(@ + 10, 90)]
              ELSE files[j]]

replaceProcessed_append(prev, result) == Append(prev, result)

\* setProcessed((prev) => [...prev.filter((p) => p.id !== imageId), result])
replaceProcessed(prev, result) == Append(filterOut(prev, result.id), result)

\* what follows `await processSingleImage(...)` in the call singles[k]
compressSingleImageResume(k, env) ==
  LET call == singles[k]
      result == processSingleImage(call.image, call.keywordToUse, call.index, env, call.url)
  IN /\ singles' = RemoveAt(singles, k)
     /\ IF result # Null
        THEN /\ files' = setFileState(files, call.imageId, FALSE, 100)
             /\ processed' = replaceProcessed(processed, result)
             /\ liveUrls' = liveUrls \cup {result.downloadUrl}
             /\ resetOne' = Append(resetOne, call.imageId)
             /\ UNCHANGED message
        ELSE /\ files' = setFileState(files, call.imageId, FALSE, NoProgress)
             /\ message' = "processingFailed"
             /\ UNCHANGED <<processed, liveUrls, resetOne>>

\* the 500 ms timer of processImages fires
resetAllFire ==
  /\ resetAll > 0
  /\ resetAll' = resetAll - 1
  /\ files' = setAllFileStates(files, FALSE, NoProgress)

\* the 500 ms timer of a compressSingleImage fires
resetOneFire(k) ==
  /\ files' = setFileState(files, resetOne[k], FALSE, NoProgress)
  /\ resetOne' = RemoveAt(resetOne, k)

-----------------------------------------------------------------------------
(* downloadZip                                                             *)

\* processed.forEach((item) => zip.file(item.seoName, item.blob)): the entries
\* of the archive by name; a later file of the same name replaces the earlier
\* one.  The handler reads the result set and changes no state of the app.
RECURSIVE downloadZip(_)
downloadZip(items) ==
  IF items = <<>> THEN <<>>
  ELSE LET n == Len(items)
           zip == downloadZip(SubSeq(items, 1, n - 1))
       IN [name \in DOMAIN zip \cup {items[n].seoName} |->
             IF name = items[n].seoName THEN items[n].blob ELSE zip[name]]

-----------------------------------------------------------------------------
(* The orchestrator: user operations, asynchronous completions, timers     *)

FileSizes == {1000}
FileLists ==
  UNION {{[k \in 1..n |-> File(k, JPEG, size)] : size \in FileSizes} : n \in 1..MaxImages}
Keywords == {<<>>, <<"a">>}
EditTexts == {<<>>, <<"b">>}

\* what the browser answers to one transform: decode (with the bitmap's size),
\* getContext, and the blob sizes of the first and the second toBlob
Env(decoded, ctx, width, height, enc1, enc2) ==
  [decoded |-> decoded, ctx |-> ctx, width |-> width, height |-> height, enc |-> <<enc1, enc2>>]
Envs == {Env(FALSE, TRUE, 0, 0, 0, 0), Env(TRUE, TRUE, 2, 1, 500, 500)}

\* const keywordToUse = input.customKeyword || keyword, read from the current
\* state instead of a closure: is it blank for the image with this id
effectiveBlank(id) ==
  \E k \in 1..Len(files) :
    files[k].id = id /\ trim(keywordToUse(files[k], keyword)) = <<>>

\* hist.blank holds the object URL number of every transform that was started
\* while the effective keyword of its image was blank in the current state
startedBlank(started, id, url) ==
  [hist EXCEPT !.blank = @ \cup (IF started /\ effectiveBlank(id) THEN {url} ELSE {})]

\* hist.cleared: handleClear has run and nothing was submitted since.
\* hist.ord[id] is the position the image with that id was accepted at;
\* hist.sub is the latest submission and the batch it met (when tracked, and
\* until the batch is changed by another operation)
SubmitOf(lists, maxImages, tracked) ==
  \E fileList \in lists :
    /\ NoEditorOpen
    /\ nextId + Len(mappedOf(fileList, Len(files), nextId)) - 1 <= maxImages
    /\ handleFiles(fileList)
    /\ hist' = [hist EXCEPT !.ord = @ \o [k \in 1..(nextId' - nextId) |-> Len(files) + k],
                            !.sub = IF tracked THEN [fileList |-> fileList, before |-> files]
                                    ELSE NoSub,
                            !.cleared = FALSE]
    /\ UNCHANGED <<keyword, isProcessing, editingItemId, editingKeyword, batch, singles,
                   timers, resetAll, resetOne, liveUrls, nextUrl, fnIn, fnOut>>

SetKeywordOf(values) ==
  \E value \in values :
    /\ NoEditorOpen
    /\ keyword' = value
    /\ UNCHANGED <<files, processed, isProcessing, message, editingItemId, editingKeyword,
                   batch, singles, timers, resetAll, resetOne, liveUrls, nextUrl, nextId,
                   hist, fnIn, fnOut>>

StartEdit ==
  \E k \in 1..Len(files) :
    /\ NoEditorOpen
    /\ startEdit(files[k])
    /\ UNCHANGED <<files, processed, keyword, isProcessing, message, batch, singles, timers,
                   resetAll, resetOne, liveUrls, nextUrl, nextId, hist, fnIn, fnOut>>

ChangeEdit ==
  \E value \in EditTexts :
    /\ changeEdit(value)
    /\ UNCHANGED <<files, processed, keyword, isProcessing, message, editingItemId, batch,
                   singles, timers, resetAll, resetOne, liveUrls, nextUrl, nextId, hist,
                   fnIn, fnOut>>

CommitEdit ==
  /\ matched(editingItemId) => Len(timers) < MaxTimers
  /\ commitEdit
  /\ UNCHANGED <<processed, keyword, isProcessing, message, batch, singles, resetAll,
                 resetOne, liveUrls, nextUrl, nextId, hist, fnIn, fnOut>>

CancelEdit ==
  /\ cancelEdit
  /\ UNCHANGED <<files, processed, keyword, isProcessing, message, batch, singles, timers,
                 resetAll, resetOne, liveUrls, nextUrl, nextId, hist, fnIn, fnOut>>

\* onClick of file-action-delete, rendered when !matched
DeleteOf(maxDeletes) ==
  \E k \in 1..Len(files) :
    /\ NoEditorOpen
    /\ ~matched(files[k].id)
    /\ Cardinality(hist.deleted) < maxDeletes
    /\ deleteSingleImage(files[k].id)
    /\ hist' = [hist EXCEPT !.deleted = @ \cup {files[k].id}, !.sub = NoSub]
    /\ UNCHANGED <<keyword, isProcessing, message, editingItemId, editingKeyword, batch,
                   singles, timers, resetAll, resetOne, nextUrl, nextId, fnIn, fnOut>>

\* onClick of the clear button, rendered when files.length > 0 || processed.length > 0
Clear ==
  /\ NoEditorOpen
  /\ Len(files) > 0 \/ Len(processed) > 0
  /\ handleClear
  /\ hist' = [hist EXCEPT !.sub = NoSub, !.cleared = TRUE]
  /\ UNCHANGED <<isProcessing, editingItemId, editingKeyword, batch, singles, timers,
                 resetAll, resetOne, nextUrl, nextId, fnIn, fnOut>>

\* onClick of the primary button: processImages unless hasProcessedImages,
\* disabled unless canProcess
ProcessOf(maxTransforms) ==
  /\ NoEditorOpen
  /\ ~hasProcessedImages /\ canProcess
  /\ nextUrl + Len(files) - 1 <= maxTransforms
  /\ processImages
  /\ hist' = startedBlank(batch'.pc = "await", batch'.files[batch'.i + 1].id,
                          batch'.urlBase + batch'.i)
  /\ UNCHANGED <<keyword, editingItemId, editingKeyword, singles, timers, resetOne, nextId,
                 fnIn, fnOut>>

BatchResumeOf(envs) ==
  \E env \in envs :
    /\ batch.pc = "await"
    /\ processImagesResume(env)
    /\ hist' = startedBlank(batch'.pc = "await", batch'.files[batch'.i + 1].id,
                            batch'.urlBase + batch'.i)
    /\ UNCHANGED <<keyword, editingItemId, editingKeyword, singles, timers, resetOne,
                   nextUrl, nextId, fnIn, fnOut>>

TimerFireOf(maxTransforms) ==
  \E k \in 1..Len(timers) :
    /\ nextUrl <= maxTransforms
    /\ timerFire(k)
    /\ hist' = startedBlank(Len(singles') > Len(singles), timers[k].imageId, nextUrl)
    /\ UNCHANGED <<processed, keyword, isProcessing, editingItemId, editingKeyword, batch,
                   resetAll, resetOne, nextId, fnIn, fnOut>>

ProgressTick ==
  \E k \in 1..Len(singles) :
    /\ progressTick(k)
    /\ UNCHANGED <<processed, keyword, isProcessing, message, editingItemId, editingKeyword,
                   batch, singles, timers, resetAll, resetOne, liveUrls, nextUrl, nextId,
                   hist, fnIn, fnOut>>

SingleResumeOf(envs) ==
  \E k \in 1..Len(singles), env \in envs :
    /\ compressSingleImageResume(k, env)
    /\ UNCHANGED <<keyword, isProcessing, editingItemId, editingKeyword, batch, timers,
                   resetAll, nextUrl, nextId, hist, fnIn, fnOut>>

ResetAllFire ==
  /\ resetAllFire
  /\ UNCHANGED <<processed, keyword, isProcessing, message, editingItemId, editingKeyword,
                 batch, singles, timers, resetOne, liveUrls, nextUrl, nextId, hist, fnIn,
                 fnOut>>

ResetOneFire ==
  \E k \in 1..Len(resetOne) :
    /\ resetOneFire(k)
    /\ UNCHANGED <<processed, keyword, isProcessing, message, editingItemId, editingKeyword,
                   batch, singles, timers, resetAll, liveUrls, nextUrl, nextId, hist, fnIn,
                   fnOut>>

Submit == SubmitOf(FileLists, MaxImages, FALSE)
Delete == DeleteOf(MaxImages)
SetKeyword == SetKeywordOf(Keywords)
Process == ProcessOf(MaxTransforms)
BatchResume == BatchResumeOf(Envs)
TimerFire == TimerFireOf(MaxTransforms)
SingleResume == SingleResumeOf(Envs)

Init == InitApp /\ fnIn = <<>> /\ fnOut = <<>>

Next ==
  \/ Submit
  \/ SetKeyword
  \/ StartEdit
  \/ ChangeEdit
  \/ CommitEdit
  \/ CancelEdit
  \/ Delete
  \/ Clear
  \/ Process
  \/ BatchResume
  \/ TimerFire
  \/ ProgressTick
  \/ SingleResume
  \/ ResetAllFire
  \/ ResetOneFire

Spec == Init /\ [][Next]_vars

\* every decode and encode call of a batch run resolves or rejects in the end:
\* the await of processImages does not stay pending forever
SpecLive == Spec /\ WF_vars(BatchResume)

-----------------------------------------------------------------------------
(* processSingleImage on its own: one call per input                       *)

TransformTypes == AllowList
TransformSizes == {0, 1000, 1070, 300000}
SummerSilkDress ==
  <<"S", "u", "m", "m", "e", "r", " ", "S", "i", "l", "k", " ", "D", "r", "e", "s", "s", "!", "!">>
TransformKeywords ==
  {<<"a">>, <<"!">>, <<"S", "i", "l", "k", " ", "!", "D">>, SummerSilkDress}
TransformIndexes == {0, 9, 99}
TransformEnvs ==
  {Env(d, TRUE, 2, 1, e1, e2) :
     d \in BOOLEAN, e1 \in {-1, 500, 2000, targetBytes, targetBytes + 1, 250000, 400000}, e2 \in {-1, 900, 350000}}

InitTransform ==
  /\ InitApp
  /\ fnIn \in {<<[input |-> [id |-> 1, file |-> File(1, type, size),
                             customKeyword |-> Undefined],
                  keywordToUse |-> kw, index |-> index, env |-> env]>> :
                 type \in TransformTypes, size \in TransformSizes,
                 kw \in TransformKeywords, index \in TransformIndexes,
                 env \in TransformEnvs}
  /\ fnOut = <<>>

ApplyTransform ==
  /\ fnOut = <<>>
  /\ fnOut' = <<processSingleImage(fnIn[1].input, fnIn[1].keywordToUse, fnIn[1].index,
                                   fnIn[1].env, nextUrl)>>
  /\ UNCHANGED <<appVars, fnIn>>

NextTransform == ApplyTransform

SpecTransform == InitTransform /\ [][NextTransform]_vars

-----------------------------------------------------------------------------
(* processSingleImage: the source rectangle and the canvas of drawImage    *)

MaxSide == 8           \* largest width and height of a decoded image

\* n / 2 for a natural number n: a whole part and 0 or 1 halves
halfOf_floor(n) == [whole |-> n \div 2, halves |-> 0]

halfOf(n) == [whole |-> n \div 2, halves |-> n % 2]

\* targetWidth, targetHeight, sx, sy, sWidth, sHeight as drawImage gets them
cropGeometry(width, height, forceSquareToUse) ==
  IF forceSquareToUse
  THEN LET size == Min(width, height)
       IN [sx |-> halfOf(width - size), sy |-> halfOf(height - size),
           sWidth |-> size, sHeight |-> size,
           targetWidth |-> size, targetHeight |-> size]
  ELSE [sx |-> halfOf(0), sy |-> halfOf(0),
        sWidth |-> width, sHeight |-> height,
        targetWidth |-> width, targetHeight |-> height]

InitCrop ==
  /\ InitApp
  /\ fnIn \in {<<[width |-> w, height |-> h, forceSquareToUse |-> sq]>> :
                 w \in 1..MaxSide, h \in 1..MaxSide, sq \in BOOLEAN}
  /\ fnOut = <<>>

ApplyCrop ==
  /\ fnOut = <<>>
  /\ fnOut' = <<cropGeometry(fnIn[1].width, fnIn[1].height, fnIn[1].forceSquareToUse)>>
  /\ UNCHANGED <<appVars, fnIn>>

NextCrop == ApplyCrop

SpecCrop == InitCrop /\ [][NextCrop]_vars

-----------------------------------------------------------------------------
(* Input acceptance on its own: submissions of up to MaxSubmit items of    *)
(* every accepted type and of an unsupported one, deletions and clears     *)

SupportedCycle == <<JPEG, PNG, WEBP, HEIC, HEIF>>
AcceptLengths == {3, MaxSubmit}
\* which positions of a submission hold an unsupported item
AcceptPatterns == {"none", "second", "all"}
unsupportedAt(pattern, k) ==
  CASE pattern = "none" -> FALSE
    [] pattern = "second" -> k = 2
    [] pattern = "all" -> TRUE
AcceptLists ==
  {[k \in 1..n |-> File(k, IF unsupportedAt(pattern, k) THEN GIF
                            ELSE SupportedCycle[(k % 5) + 1], 1000)] :
     n \in AcceptLengths, pattern \in AcceptPatterns}

SubmitAccept == SubmitOf(AcceptLists, MaxAcceptIds, TRUE)
DeleteAccept == DeleteOf(MaxDeletes)

NextAccept ==
  \/ SubmitAccept
  \/ DeleteAccept
  \/ Clear

SpecAccept == Init /\ [][NextAccept]_vars

-----------------------------------------------------------------------------
(* The orchestrator with one more image and one more transform, in an      *)
(* environment where files arrive one at a time, the global keyword is set  *)
(* and every transform succeeds                                             *)

WideImages == MaxImages + 1
WideTransforms == MaxTransforms + 1
WideLists == {<<File(1, JPEG, size)>> : size \in FileSizes}
WideEnvs == {Env(TRUE, TRUE, 2, 1, 500, 500)}

SubmitWide == SubmitOf(WideLists, WideImages, FALSE)
DeleteWide == DeleteOf(WideImages)
SetKeywordWide == SetKeywordOf({<<"a">>})
ProcessWide == ProcessOf(WideTransforms)
BatchResumeWide == BatchResumeOf(WideEnvs)
TimerFireWide == TimerFireOf(WideTransforms)
SingleResumeWide == SingleResumeOf(WideEnvs)

NextWide ==
  \/ SubmitWide
  \/ SetKeywordWide
  \/ StartEdit
  \/ ChangeEdit
  \/ CommitEdit
  \/ CancelEdit
  \/ DeleteWide
  \/ ProcessWide
  \/ BatchResumeWide
  \/ TimerFireWide
  \/ ProgressTick
  \/ SingleResumeWide
  \/ ResetAllFire
  \/ ResetOneFire

SpecWide == Init /\ [][NextWide]_vars

-----------------------------------------------------------------------------
(* sanitizeKeyword on its own: the keyword text is drawn from the strings   *)
(* of at most MaxLen characters, and the function is applied to its own     *)
(* result                                                                    *)

KeywordChars == {"a", "A", "7", "U4E2D", " ", "\t", "-", "!"}
KeywordTexts == UNION {[1..n -> KeywordChars] : n \in 0..MaxLen}

InitSanitize == InitApp /\ fnIn \in KeywordTexts /\ fnOut = <<>>

ApplySanitize ==
  /\ Len(fnOut) < 2
  /\ fnOut' = Append(fnOut, sanitizeKeyword(IF fnOut = <<>> THEN fnIn ELSE fnOut[Len(fnOut)]))
  /\ UNCHANGED <<appVars, fnIn>>

NextSanitize == ApplySanitize

SpecSanitize == InitSanitize /\ [][NextSanitize]_vars

\* C1: sanitizing a sanitized keyword changes nothing:
\* sanitizeKeyword(sanitizeKeyword(s)) = sanitizeKeyword(s) for every text s
C1_Idempotent == Len(fnOut) = 2 => fnOut[2] = fnOut[1]

\* a text that sanitizing changes (a blank became a hyphen, a character was
\* dropped or lowered) has been sanitized twice
C1_Witness ==
  /\ Len(fnOut) = 2
  /\ fnOut[1] # fnIn
  /\ \E k \in 1..Len(fnIn) : fnIn[k] \in WhiteChars
  /\ \E k \in 1..Len(fnOut[1]) : fnOut[1][k] = "-"

-----------------------------------------------------------------------------
(* ImageAnalyzer: cleanFileName and analyzeFileName                        *)

includes(s, p) == \E i \in 1..(Len(s) - Len(p) + 1) : SubSeq(s, i, i + Len(p) - 1) = p
startsWith(s, p) == Len(p) <= Len(s) /\ SubSeq(s, 1, Len(p)) = p
endsWith(s, p) == Len(p) <= Len(s) /\ SubSeq(s, Len(s) - Len(p) + 1, Len(s)) = p

\* [-_\s]
SepChars == WhiteChars \cup {"-", "_"}

\* the number of characters of X that s ends with
RECURSIVE trailingRun(_, _)
trailingRun(s, X) ==
  IF s # <<>> /\ s[Len(s)] \in X THEN 1 + trailingRun(SubSeq(s, 1, Len(s) - 1), X) ELSE 0

dropLast(s, n) == SubSeq(s, 1, Len(s) - n)

\* .replace(/\.(jpg|jpeg|png|gif|webp|heic|heif)$/i, '') on a lower-cased name
Extensions ==
  {<<".", "j", "p", "g">>, <<".", "j", "p", "e", "g">>, <<".", "p", "n", "g">>,
   <<".", "g", "i", "f">>, <<".", "w", "e", "b", "p">>, <<".", "h", "e", "i", "c">>,
   <<".", "h", "e", "i", "f">>}
removeExtension(s) ==
  IF \E e \in Extensions : endsWith(s, e)
  THEN dropLast(s, Len(CHOOSE e \in Extensions : endsWith(s, e)))
  ELSE s

\* const prefixes = [...]
prefixes ==
  <<<<"i", "m", "g", "_">>,
    <<"i", "m", "a", "g", "e", "_">>,
    <<"p", "h", "o", "t", "o", "_">>,
    <<"p", "i", "c", "_">>,
    <<"p", "i", "c", "t", "u", "r", "e", "_">>,
    <<"d", "s", "c", "_">>,
    <<"d", "s", "c", "n">>,
    <<"d", "s", "c", "f">>,
    <<"d", "s", "c", "_">>,
    <<"i", "m", "g">>,
    <<"p", "h", "o", "t", "o">>,
    <<"p", "i", "c">>,
    <<"p">>,
    <<"w", "p", "_">>,
    <<"w", "p">>,
    <<"s", "n", "a", "p">>,
    <<"s", "n", "a", "p", "s", "h", "o", "t">>,
    <<"c", "a", "p", "t", "u", "r", "e">>,
    <<"s", "c", "r", "e", "e", "n", "s", "h", "o", "t">>,
    <<"s", "c", "r", "e", "e", "n">>,
    <<"w", "e", "c", "h", "a", "t">>,
    <<"w", "x", "_">>,
    <<"q", "q", "_">>,
    <<"a", "l", "i", "p", "a", "y", "_">>,
    <<"t", "a", "o", "b", "a", "o", "_">>,
    <<"e", "x", "p", "o", "r", "t", "_">>,
    <<"e", "x", "p", "o", "r", "t">>,
    <<"o", "u", "t", "p", "u", "t", "_">>,
    <<"o", "u", "t", "p", "u", "t">>,
    <<"u", "n", "t", "i", "t", "l", "e", "d">>,
    <<"n", "e", "w">>,
    <<"c", "o", "p", "y">>,
    <<"c", "o", "p", "y", " ", "o", "f">>,
    <<"U526F", "U672C">>,
    <<"U65B0", "U5EFA">>,
    <<"2", "0", "2", "4">>,
    <<"2", "0", "2", "3">>,
    <<"2", "0", "2", "5">>,
    <<"2", "0", "2", "2">>,
    <<"2", "0", "2", "1">>,
    <<"2", "0", "2", "0">>,
    <<"0", "1">>,
    <<"0", "2">>,
    <<"0", "3">>,
    <<"0", "4">>,
    <<"0", "5">>,
    <<"0", "6">>,
    <<"0", "7">>,
    <<"0", "8">>,
    <<"0", "9">>,
    <<"1", "0">>,
    <<"1", "1">>,
    <<"1", "2">>>>

\* .replace(/^[-_\s]+/, '')
RECURSIVE stripLeadingSeparators(_)
stripLeadingSeparators(s) ==
  IF s # <<>> /\ Head(s) \in SepChars THEN stripLeadingSeparators(Tail(s)) ELSE s

\* if (cleaned.startsWith(prefix)) { cleaned = cleaned.substring(prefix.length).trim(); ... }
stripPrefix(cleaned, prefix) ==
  IF startsWith(cleaned, prefix)
  THEN stripLeadingSeparators(trim(SubSeq(cleaned, Len(prefix) + 1, Len(cleaned))))
  ELSE cleaned

\* for (const prefix of prefixes) ...: the prefixes ps[lo..hi] applied in order.
\* The range is halved, and the result of the first half is bound as a value
\* before the second half starts, which keeps the evaluation shallow.
RECURSIVE stripPrefixes(_, _, _, _)
stripPrefixes(cleaned, ps, lo, hi) ==
  IF lo > hi THEN cleaned
  ELSE IF lo = hi THEN stripPrefix(cleaned, ps[lo])
  ELSE CHOOSE result \in {stripPrefixes(half, ps, (lo + hi) \div 2 + 1, hi) :
                            half \in {stripPrefixes(cleaned, ps, lo, (lo + hi) \div 2)}} : TRUE

\* .replace(/[-_\s]*\d{4,}$/, ''): a final run of four or more digits, with the
\* separators before it
dropLongNumber(s) ==
  LET d == trailingRun(s, DigitChars)
  IN IF d >= 4
     THEN dropLast(dropLast(s, d), trailingRun(dropLast(s, d), SepChars))
     ELSE s

\* .replace(/[-_\s]*\([^)]*\)$/, '') and the same with [ ]: a final bracket
\* group (from the leftmost opening bracket that no closing one follows before
\* the end), with the separators before it
dropBracket(s, open, close) ==
  LET starts == {j \in 1..(Len(s) - 1) :
                   s[j] = open /\ \A k \in (j + 1)..(Len(s) - 1) : s[k] # close}
  IN IF s # <<>> /\ s[Len(s)] = close /\ starts # {}
     THEN LET j == CHOOSE j \in starts : \A k \in starts : j <= k
              head == SubSeq(s, 1, j - 1)
          IN dropLast(head, trailingRun(head, SepChars))
     ELSE s

cleanFileName(fileName) ==
  LET lowered == toLowerCase(fileName)
      noExt == removeExtension(lowered)
      noPrefix == stripPrefixes(noExt, prefixes, 1, Len(prefixes))
      noSuffix == dropBracket(dropBracket(dropLongNumber(noPrefix), "(", ")"), "[", "]")
  IN trim(replaceRuns(noSuffix, SepChars, " "))

\* const colors: Record<string, string[]>
colors ==
  <<[token |-> "red",
     patterns |-> <<<<"U7EA2">>,
                   <<"U7EA2", "U8272">>,
                   <<"U8D64">>,
                   <<"U6731", "U7EA2">>,
                   <<"U7EEF", "U7EA2">>,
                   <<"r", "e", "d">>,
                   <<"c", "r", "i", "m", "s", "o", "n">>,
                   <<"s", "c", "a", "r", "l", "e", "t">>,
                   <<"b", "u", "r", "g", "u", "n", "d", "y">>,
                   <<"m", "a", "r", "o", "o", "n">>>>],
    [token |-> "blue",
     patterns |-> <<<<"U84DD">>,
                   <<"U84DD", "U8272">>,
                   <<"U6E5B", "U84DD">>,
                   <<"U5929", "U84DD">>,
                   <<"U5B9D", "U84DD">>,
                   <<"n", "a", "v", "y">>,
                   <<"r", "o", "y", "a", "l">>,
                   <<"s", "k", "y">>,
                   <<"a", "z", "u", "r", "e">>,
                   <<"c", "y", "a", "n">>>>],
    [token |-> "green",
     patterns |-> <<<<"U7EFF">>,
                   <<"U7EFF", "U8272">>,
                   <<"U7FE0", "U7EFF">>,
                   <<"U58A8", "U7EFF">>,
                   <<"U8349", "U7EFF">>,
                   <<"e", "m", "e", "r", "a", "l", "d">>,
                   <<"m", "i", "n", "t">>,
                   <<"l", "i", "m", "e">>,
                   <<"o", "l", "i", "v", "e">>,
                   <<"f", "o", "r", "e", "s", "t">>>>],
    [token |-> "yellow",
     patterns |-> <<<<"U9EC4">>,
                   <<"U9EC4", "U8272">>,
                   <<"U91D1", "U9EC4">>,
                   <<"U6A59", "U9EC4">>,
                   <<"U67E0", "U6AAC", "U9EC4">>,
                   <<"g", "o", "l", "d", "e", "n">>,
                   <<"a", "m", "b", "e", "r">>,
                   <<"l", "e", "m", "o", "n">>,
                   <<"m", "u", "s", "t", "a", "r", "d">>>>],
    [token |-> "black",
     patterns |-> <<<<"U9ED1">>,
                   <<"U9ED1", "U8272">>,
                   <<"U7384">>,
                   <<"U58A8", "U9ED1">>,
                   <<"U4E4C", "U9ED1">>,
                   <<"e", "b", "o", "n", "y">>,
                   <<"c", "h", "a", "r", "c", "o", "a", "l">>,
                   <<"o", "n", "y", "x">>>>],
    [token |-> "white",
     patterns |-> <<<<"U767D">>,
                   <<"U767D", "U8272">>,
                   <<"U7EAF", "U767D">>,
                   <<"U8C61", "U7259", "U767D">>,
                   <<"U96EA", "U767D">>,
                   <<"i", "v", "o", "r", "y">>,
                   <<"p", "e", "a", "r", "l">>,
                   <<"c", "r", "e", "a", "m">>,
                   <<"o", "f", "f", "-", "w", "h", "i", "t", "e">>>>],
    [token |-> "gray",
     patterns |-> <<<<"U7070">>,
                   <<"U7070", "U8272">>,
                   <<"U70AD", "U7070">>,
                   <<"U94F6", "U7070">>,
                   <<"U6D45", "U7070">>,
                   <<"g", "r", "e", "y">>,
                   <<"s", "l", "a", "t", "e">>,
                   <<"a", "s", "h">>,
                   <<"s", "i", "l", "v", "e", "r">>>>],
    [token |-> "pink",
     patterns |-> <<<<"U7C89">>,
                   <<"U7C89", "U8272">>,
                   <<"U6843", "U7EA2">>,
                   <<"U73AB", "U7EA2">>,
                   <<"U7C89", "U7EA2">>,
                   <<"r", "o", "s", "e">>,
                   <<"c", "o", "r", "a", "l">>,
                   <<"s", "a", "l", "m", "o", "n">>,
                   <<"b", "l", "u", "s", "h">>>>],
    [token |-> "purple",
     patterns |-> <<<<"U7D2B">>,
                   <<"U7D2B", "U8272">>,
                   <<"U7D2B", "U7F57", "U5170">>,
                   <<"U85B0", "U8863", "U8349">>,
                   <<"v", "i", "o", "l", "e", "t">>,
                   <<"l", "a", "v", "e", "n", "d", "e", "r">>,
                   <<"p", "l", "u", "m">>,
                   <<"m", "a", "u", "v", "e">>>>],
    [token |-> "orange",
     patterns |-> <<<<"U6A59">>,
                   <<"U6A59", "U8272">>,
                   <<"U6A58", "U8272">>,
                   <<"U6A58", "U7EA2">>,
                   <<"t", "a", "n", "g", "e", "r", "i", "n", "e">>,
                   <<"p", "e", "a", "c", "h">>,
                   <<"a", "p", "r", "i", "c", "o", "t">>>>],
    [token |-> "brown",
     patterns |-> <<<<"U68D5">>,
                   <<"U68D5", "U8272">>,
                   <<"U8910", "U8272">>,
                   <<"U5496", "U5561", "U8272">>,
                   <<"U5361", "U5176">>,
                   <<"t", "a", "n">>,
                   <<"b", "e", "i", "g", "e">>,
                   <<"k", "h", "a", "k", "i">>,
                   <<"c", "a", "m", "e", "l">>,
                   <<"c", "h", "o", "c", "o", "l", "a", "t", "e">>>>],
    [token |-> "beige",
     patterns |-> <<<<"U7C73", "U8272">>,
                   <<"U7C73", "U767D">>,
                   <<"U674F", "U8272">>,
                   <<"U5361", "U5176">>,
                   <<"n", "u", "d", "e">>,
                   <<"s", "a", "n", "d">>,
                   <<"t", "a", "u", "p", "e">>>>],
    [token |-> "gold",
     patterns |-> <<<<"U91D1">>,
                   <<"U91D1", "U8272">>,
                   <<"U9EC4", "U91D1">>,
                   <<"U91D1", "U5C5E", "U8272">>,
                   <<"m", "e", "t", "a", "l", "l", "i", "c">>>>],
    [token |-> "silver",
     patterns |-> <<<<"U94F6">>,
                   <<"U94F6", "U8272">>,
                   <<"U91D1", "U5C5E", "U94F6">>,
                   <<"p", "l", "a", "t", "i", "n", "u", "m">>>>],
    [token |-> "multicolor",
     patterns |-> <<<<"U5F69">>,
                   <<"U591A", "U5F69">>,
                   <<"U62FC", "U8272">>,
                   <<"U6E10", "U53D8">>,
                   <<"U82B1", "U8272">>,
                   <<"c", "o", "l", "o", "r", "f", "u", "l">>,
                   <<"r", "a", "i", "n", "b", "o", "w">>,
                   <<"p", "r", "i", "n", "t">>,
                   <<"p", "a", "t", "t", "e", "r", "n">>>>]>>

\* const materials: Record<string, string[]>
materials ==
  <<[token |-> "leather",
     patterns |-> <<<<"U76AE">>,
                   <<"U76AE", "U9769">>,
                   <<"U771F", "U76AE">>,
                   <<"U725B", "U76AE">>,
                   <<"U7F8A", "U76AE">>,
                   <<"l", "e", "a", "t", "h", "e", "r">>,
                   <<"g", "e", "n", "u", "i", "n", "e", "-", "l", "e", "a", "t", "h", "e", "r">>,
                   <<"s", "u", "e", "d", "e">>,
                   <<"n", "a", "p", "p", "a">>>>],
    [token |-> "canvas",
     patterns |-> <<<<"U5E06", "U5E03">>,
                   <<"c", "a", "n", "v", "a", "s">>,
                   <<"d", "u", "c", "k", "-", "c", "a", "n", "v", "a", "s">>>>],
    [token |-> "cotton",
     patterns |-> <<<<"U68C9">>,
                   <<"U7EAF", "U68C9">>,
                   <<"U68C9", "U8D28">>,
                   <<"c", "o", "t", "t", "o", "n">>,
                   <<"o", "r", "g", "a", "n", "i", "c", "-", "c", "o", "t", "t", "o", "n">>,
                   <<"p", "i", "m", "a", "-", "c", "o", "t", "t", "o", "n">>>>],
    [token |-> "silk",
     patterns |-> <<<<"U4E1D">>,
                   <<"U4E1D", "U7EF8">>,
                   <<"U771F", "U4E1D">>,
                   <<"U7F0E", "U9762">>,
                   <<"s", "i", "l", "k">>,
                   <<"s", "a", "t", "i", "n">>,
                   <<"c", "h", "i", "f", "f", "o", "n">>>>],
    [token |-> "wool",
     patterns |-> <<<<"U7F8A", "U6BDB">>,
                   <<"U6BDB">>,
                   <<"U7ED2">>,
                   <<"w", "o", "o", "l">>,
                   <<"c", "a", "s", "h", "m", "e", "r", "e">>,
                   <<"m", "e", "r", "i", "n", "o">>,
                   <<"a", "l", "p", "a", "c", "a">>>>],
    [token |-> "denim",
     patterns |-> <<<<"U4E39", "U5B81">>,
                   <<"U725B", "U4ED4", "U5E03">>,
                   <<"d", "e", "n", "i", "m">>,
                   <<"j", "e", "a", "n">>>>],
    [token |-> "linen",
     patterns |-> <<<<"U4E9A", "U9EBB">>,
                   <<"U9EBB">>,
                   <<"l", "i", "n", "e", "n">>>>],
    [token |-> "velvet",
     patterns |-> <<<<"U5929", "U9E45", "U7ED2">>,
                   <<"U7ED2", "U5E03">>,
                   <<"v", "e", "l", "v", "e", "t">>,
                   <<"v", "e", "l", "o", "u", "r">>>>],
    [token |-> "lace",
     patterns |-> <<<<"U857E", "U4E1D">>,
                   <<"U9542", "U7A7A">>,
                   <<"l", "a", "c", "e">>>>],
    [token |-> "knit",
     patterns |-> <<<<"U9488", "U7EC7">>,
                   <<"U7F16", "U7EC7">>,
                   <<"k", "n", "i", "t">>,
                   <<"k", "n", "i", "t", "t", "e", "d">>,
                   <<"s", "w", "e", "a", "t", "e", "r">>>>],
    [token |-> "metal",
     patterns |-> <<<<"U91D1", "U5C5E">>,
                   <<"U5408", "U91D1">>,
                   <<"U4E0D", "U9508", "U94A2">>,
                   <<"m", "e", "t", "a", "l">>,
                   <<"s", "t", "a", "i", "n", "l", "e", "s", "s", "-", "s", "t", "e", "e", "l">>,
                   <<"a", "l", "u", "m", "i", "n", "u", "m">>,
                   <<"b", "r", "a", "s", "s">>>>],
    [token |-> "wood",
     patterns |-> <<<<"U6728">>,
                   <<"U6728", "U8D28">>,
                   <<"U5B9E", "U6728">>,
                   <<"w", "o", "o", "d">>,
                   <<"w", "o", "o", "d", "e", "n">>,
                   <<"b", "a", "m", "b", "o", "o">>,
                   <<"o", "a", "k">>,
                   <<"w", "a", "l", "n", "u", "t">>>>],
    [token |-> "ceramic",
     patterns |-> <<<<"U9676", "U74F7">>,
                   <<"U74F7">>,
                   <<"c", "e", "r", "a", "m", "i", "c">>,
                   <<"p", "o", "r", "c", "e", "l", "a", "i", "n">>>>],
    [token |-> "glass",
     patterns |-> <<<<"U73BB", "U7483">>,
                   <<"U94A2", "U5316", "U73BB", "U7483">>,
                   <<"g", "l", "a", "s", "s">>,
                   <<"c", "r", "y", "s", "t", "a", "l">>>>],
    [token |-> "plastic",
     patterns |-> <<<<"U5851", "U6599">>,
                   <<"U5851", "U80F6">>,
                   <<"p", "l", "a", "s", "t", "i", "c">>,
                   <<"p", "v", "c">>,
                   <<"a", "c", "r", "y", "l", "i", "c">>>>],
    [token |-> "rubber",
     patterns |-> <<<<"U6A61", "U80F6">>,
                   <<"r", "u", "b", "b", "e", "r">>,
                   <<"s", "i", "l", "i", "c", "o", "n", "e">>>>],
    [token |-> "carbon-fiber",
     patterns |-> <<<<"U78B3", "U7EA4", "U7EF4">>,
                   <<"c", "a", "r", "b", "o", "n", "-", "f", "i", "b", "e", "r">>,
                   <<"c", "a", "r", "b", "o", "n">>>>],
    [token |-> "fabric",
     patterns |-> <<<<"U5E03", "U6599">>,
                   <<"f", "a", "b", "r", "i", "c">>,
                   <<"t", "e", "x", "t", "i", "l", "e">>,
                   <<"c", "l", "o", "t", "h">>>>]>>

\* const styles: Record<string, string[]>
styles ==
  <<[token |-> "casual",
     patterns |-> <<<<"U4F11", "U95F2">>,
                   <<"U65E5", "U5E38">>,
                   <<"U968F", "U6027">>>>],
    [token |-> "formal",
     patterns |-> <<<<"U6B63", "U5F0F">>,
                   <<"U5546", "U52A1">>,
                   <<"U804C", "U573A">>>>],
    [token |-> "vintage",
     patterns |-> <<<<"U590D", "U53E4">>,
                   <<"U6000", "U65E7">>,
                   <<"v", "i", "n", "t", "a", "g", "e">>>>],
    [token |-> "minimalist",
     patterns |-> <<<<"U7B80", "U7EA6">>,
                   <<"U6781", "U7B80">>,
                   <<"U7B80", "U5355">>>>],
    [token |-> "luxury",
     patterns |-> <<<<"U5962", "U534E">>,
                   <<"U8C6A", "U534E">>,
                   <<"U5962", "U4F88">>,
                   <<"U9AD8", "U7AEF">>>>],
    [token |-> "cute",
     patterns |-> <<<<"U53EF", "U7231">>,
                   <<"U840C">>,
                   <<"U751C", "U7F8E">>>>],
    [token |-> "elegant",
     patterns |-> <<<<"U4F18", "U96C5">>,
                   <<"U5178", "U96C5">>,
                   <<"U4F18", "U96C5">>>>],
    [token |-> "sport",
     patterns |-> <<<<"U8FD0", "U52A8">>,
                   <<"U6D3B", "U529B">>,
                   <<"U6237", "U5916">>>>],
    [token |-> "classic",
     patterns |-> <<<<"U7ECF", "U5178">>,
                   <<"U7ECF", "U5178", "U6B3E">>>>],
    [token |-> "modern",
     patterns |-> <<<<"U73B0", "U4EE3">>,
                   <<"U6F6E", "U6D41">>,
                   <<"U65F6", "U5C1A">>>>],
    [token |-> "bohemian",
     patterns |-> <<<<"U6CE2", "U897F", "U7C73", "U4E9A">>,
                   <<"U6CE2", "U897F", "U7C73", "U4E9A", "U98CE">>>>],
    [token |-> "preppy",
     patterns |-> <<<<"U5B66", "U9662">>,
                   <<"U5B66", "U9662", "U98CE">>>>],
    [token |-> "street",
     patterns |-> <<<<"U8857", "U5934">>,
                   <<"U8857", "U5934", "U98CE">>>>]>>

\* const clothing: Record<string, string[]>
clothing ==
  <<[token |-> "dress",
     patterns |-> <<<<"U8FDE", "U8863", "U88D9">>,
                   <<"U88D9", "U88C5">>,
                   <<"U793C", "U670D", "U88D9">>,
                   <<"U665A", "U793C", "U670D">>,
                   <<"U5A5A", "U7EB1", "U88D9">>,
                   <<"t", "e", "a", "-", "d", "r", "e", "s", "s">>,
                   <<"m", "a", "x", "i", "-", "d", "r", "e", "s", "s">>,
                   <<"m", "i", "d", "i", "-", "d", "r", "e", "s", "s">>,
                   <<"m", "i", "n", "i", "-", "d", "r", "e", "s", "s">>,
                   <<"c", "o", "c", "k", "t", "a", "i", "l", "-", "d", "r", "e", "s", "s">>,
                   <<"d", "r", "e", "s", "s">>,
                   <<"g", "o", "w", "n">>>>],
    [token |-> "skirt",
     patterns |-> <<<<"U534A", "U8EAB", "U88D9">>,
                   <<"U77ED", "U88D9">>,
                   <<"U957F", "U88D9">>,
                   <<"a", "U5B57", "U88D9">>,
                   <<"U767E", "U8936", "U88D9">>,
                   <<"U5305", "U81C0", "U88D9">>,
                   <<"s", "k", "i", "r", "t">>,
                   <<"p", "e", "n", "c", "i", "l", "-", "s", "k", "i", "r", "t">>,
                   <<"a", "-", "l", "i", "n", "e", "-", "s", "k", "i", "r", "t">>,
                   <<"p", "l", "e", "a", "t", "e", "d", "-", "s", "k", "i", "r", "t">>>>],
    [token |-> "pants",
     patterns |-> <<<<"U88E4", "U5B50">>,
                   <<"U957F", "U88E4">>,
                   <<"U4F11", "U95F2", "U88E4">>,
                   <<"U76F4", "U7B52", "U88E4">>,
                   <<"U9614", "U817F", "U88E4">>,
                   <<"U5C0F", "U811A", "U88E4">>,
                   <<"p", "a", "n", "t", "s">>,
                   <<"t", "r", "o", "u", "s", "e", "r", "s">>,
                   <<"s", "l", "a", "c", "k", "s">>,
                   <<"w", "i", "d", "e", "-", "l", "e", "g", "-", "p", "a", "n", "t", "s">>>>],
    [token |-> "jeans",
     patterns |-> <<<<"U725B", "U4ED4", "U88E4">>,
                   <<"U725B", "U4ED4", "U88E4">>,
                   <<"d", "e", "n", "i", "m">>,
                   <<"U4E39", "U5B81">>,
                   <<"j", "e", "a", "n", "s">>,
                   <<"j", "e", "a", "n">>,
                   <<"d", "e", "n", "i", "m", "-", "p", "a", "n", "t", "s">>>>],
    [token |-> "shorts",
     patterns |-> <<<<"U77ED", "U88E4">>,
                   <<"U70ED", "U88E4">>,
                   <<"s", "h", "o", "r", "t", "s">>,
                   <<"b", "e", "r", "m", "u", "d", "a", "-", "s", "h", "o", "r", "t", "s">>,
                   <<"c", "a", "r", "g", "o", "-", "s", "h", "o", "r", "t", "s">>>>],
    [token |-> "t-shirt",
     patterns |-> <<<<"t", "U6064">>,
                   <<"t", "s", "h", "i", "r", "t">>,
                   <<"t", "-", "s", "h", "i", "r", "t">>,
                   <<"U77ED", "U8896">>,
                   <<"U4F53", "U6064">>,
                   <<"t", "e", "e">>,
                   <<"t", "a", "n", "k", "-", "t", "o", "p">>,
                   <<"s", "l", "e", "e", "v", "e", "l", "e", "s", "s">>>>],
    [token |-> "shirt",
     patterns |-> <<<<"U886C", "U886B">>,
                   <<"U957F", "U8896">>,
                   <<"t", "o", "p">>,
                   <<"U4E0A", "U8863">>,
                   <<"s", "h", "i", "r", "t">>,
                   <<"b", "u", "t", "t", "o", "n", "-", "d", "o", "w", "n">>,
                   <<"b", "u", "t", "t", "o", "n", "-", "u", "p">>,
                   <<"o", "x", "f", "o", "r", "d", "-", "s", "h", "i", "r", "t">>>>],
    [token |-> "blouse",
     patterns |-> <<<<"U5973", "U886B">>,
                   <<"U5973", "U58EB", "U886C", "U886B">>,
                   <<"U96EA", "U7EBA", "U886B">>,
                   <<"b", "l", "o", "u", "s", "e">>,
                   <<"c", "h", "i", "f", "f", "o", "n", "-", "b", "l", "o", "u", "s", "e">>>>],
    [token |-> "sweater",
     patterns |-> <<<<"U6BDB", "U8863">>,
                   <<"U9488", "U7EC7", "U886B">>,
                   <<"p", "u", "l", "l", "o", "v", "e", "r">>,
                   <<"s", "w", "e", "a", "t", "e", "r">>,
                   <<"k", "n", "i", "t", "-", "s", "w", "e", "a", "t", "e", "r">>,
                   <<"c", "a", "r", "d", "i", "g", "a", "n", "-", "s", "w", "e", "a", "t", "e", "r">>>>],
    [token |-> "hoodie",
     patterns |-> <<<<"U536B", "U8863">>,
                   <<"U8FDE", "U5E3D", "U886B">>,
                   <<"U5957", "U5934", "U886B">>,
                   <<"h", "o", "o", "d", "i", "e">>,
                   <<"h", "o", "o", "d", "e", "d", "-", "s", "w", "e", "a", "t", "s", "h", "i", "r", "t">>,
                   <<"s", "w", "e", "a", "t", "s", "h", "i", "r", "t">>>>],
    [token |-> "cardigan",
     patterns |-> <<<<"U5F00", "U886B">>,
                   <<"U5F00", "U895F", "U886B">>,
                   <<"c", "a", "r", "d", "i", "g", "a", "n">>>>],
    [token |-> "jacket",
     patterns |-> <<<<"U5939", "U514B">>,
                   <<"U5916", "U5957">>,
                   <<"U77ED", "U5916", "U5957">>,
                   <<"j", "a", "c", "k", "e", "t">>,
                   <<"b", "o", "m", "b", "e", "r", "-", "j", "a", "c", "k", "e", "t">>,
                   <<"d", "e", "n", "i", "m", "-", "j", "a", "c", "k", "e", "t">>,
                   <<"l", "e", "a", "t", "h", "e", "r", "-", "j", "a", "c", "k", "e", "t">>>>],
    [token |-> "coat",
     patterns |-> <<<<"U5927", "U8863">>,
                   <<"U98CE", "U8863">>,
                   <<"U6BDB", "U5462", "U5927", "U8863">>,
                   <<"U7F8A", "U6BDB", "U5927", "U8863">>,
                   <<"c", "o", "a", "t">>,
                   <<"t", "r", "e", "n", "c", "h", "-", "c", "o", "a", "t">>,
                   <<"w", "o", "o", "l", "-", "c", "o", "a", "t">>,
                   <<"o", "v", "e", "r", "c", "o", "a", "t">>>>],
    [token |-> "blazer",
     patterns |-> <<<<"U897F", "U88C5", "U5916", "U5957">>,
                   <<"U5C0F", "U897F", "U88C5">>,
                   <<"b", "l", "a", "z", "e", "r">>,
                   <<"s", "p", "o", "r", "t", "-", "c", "o", "a", "t">>>>],
    [token |-> "suit",
     patterns |-> <<<<"U897F", "U88C5">>,
                   <<"U5957", "U88C5">>,
                   <<"U6B63", "U88C5">>,
                   <<"s", "u", "i", "t">>,
                   <<"b", "u", "s", "i", "n", "e", "s", "s", "-", "s", "u", "i", "t">>,
                   <<"f", "o", "r", "m", "a", "l", "-", "s", "u", "i", "t">>>>],
    [token |-> "vest",
     patterns |-> <<<<"U80CC", "U5FC3">>,
                   <<"U9A6C", "U7532">>,
                   <<"v", "e", "s", "t">>,
                   <<"w", "a", "i", "s", "t", "c", "o", "a", "t">>>>],
    [token |-> "jumpsuit",
     patterns |-> <<<<"U8FDE", "U4F53", "U88E4">>,
                   <<"U8FDE", "U8EAB", "U8863">>,
                   <<"j", "u", "m", "p", "s", "u", "i", "t">>,
                   <<"r", "o", "m", "p", "e", "r">>,
                   <<"o", "n", "e", "s", "i", "e">>>>],
    [token |-> "romper",
     patterns |-> <<<<"U8FDE", "U4F53", "U77ED", "U88E4">>,
                   <<"r", "o", "m", "p", "e", "r">>>>],
    [token |-> "leggings",
     patterns |-> <<<<"U6253", "U5E95", "U88E4">>,
                   <<"l", "e", "g", "g", "i", "n", "g", "s">>,
                   <<"y", "o", "g", "a", "-", "p", "a", "n", "t", "s">>>>],
    [token |-> "sweatpants",
     patterns |-> <<<<"U8FD0", "U52A8", "U88E4">>,
                   <<"s", "w", "e", "a", "t", "p", "a", "n", "t", "s">>,
                   <<"j", "o", "g", "g", "e", "r", "s">>>>],
    [token |-> "pajamas",
     patterns |-> <<<<"U7761", "U8863">>,
                   <<"p", "a", "j", "a", "m", "a", "s">>,
                   <<"p", "j", "s">>,
                   <<"s", "l", "e", "e", "p", "w", "e", "a", "r">>>>]>>

\* const shoes: Record<string, string[]>
shoes ==
  <<[token |-> "sneakers",
     patterns |-> <<<<"U8FD0", "U52A8", "U978B">>,
                   <<"U4F11", "U95F2", "U978B">>,
                   <<"U677F", "U978B">>,
                   <<"s", "n", "e", "a", "k", "e", "r">>,
                   <<"t", "r", "a", "i", "n", "e", "r">>>>],
    [token |-> "running-shoes",
     patterns |-> <<<<"U8DD1", "U978B">>,
                   <<"U8DD1", "U6B65", "U978B">>,
                   <<"U6162", "U8DD1", "U978B">>>>],
    [token |-> "boots",
     patterns |-> <<<<"U9774", "U5B50">>,
                   <<"U9774">>,
                   <<"U957F", "U9774">>,
                   <<"U77ED", "U9774">>,
                   <<"U9A6C", "U4E01", "U9774">>,
                   <<"U5207", "U5C14", "U897F", "U9774">>,
                   <<"s", "n", "o", "w", "-", "b", "o", "o", "t", "s">>>>],
    [token |-> "ankle-boots",
     patterns |-> <<<<"U77ED", "U9774">>,
                   <<"U8E1D", "U9774">>>>],
    [token |-> "heels",
     patterns |-> <<<<"U9AD8", "U8DDF", "U978B">>,
                   <<"U9AD8", "U8DDF">>,
                   <<"s", "t", "i", "l", "e", "t", "t", "o">>,
                   <<"p", "u", "m", "p", "s">>>>],
    [token |-> "stilettos",
     patterns |-> <<<<"U7EC6", "U9AD8", "U8DDF">>,
                   <<"U7EC6", "U8DDF">>>>],
    [token |-> "flats",
     patterns |-> <<<<"U5E73", "U5E95", "U978B">>,
                   <<"U5E73", "U5E95">>,
                   <<"b", "a", "l", "l", "e", "t">>>>],
    [token |-> "sandals",
     patterns |-> <<<<"U51C9", "U978B">>,
                   <<"U51C9", "U978B">>,
                   <<"s", "a", "n", "d", "a", "l", "s">>>>],
    [token |-> "slippers",
     patterns |-> <<<<"U62D6", "U978B">>,
                   <<"U62D6", "U978B">>>>],
    [token |-> "loafers",
     patterns |-> <<<<"U4E50", "U798F", "U978B">>,
                   <<"U8C46", "U8C46", "U978B">>,
                   <<"l", "o", "a", "f", "e", "r">>>>],
    [token |-> "oxfords",
     patterns |-> <<<<"U725B", "U6D25", "U978B">>>>],
    [token |-> "derby",
     patterns |-> <<<<"U5FB7", "U6BD4", "U978B">>>>],
    [token |-> "canvas-shoes",
     patterns |-> <<<<"U5E06", "U5E03", "U978B">>>>]>>

\* const bags: Record<string, string[]>
bags ==
  <<[token |-> "handbag",
     patterns |-> <<<<"U624B", "U63D0", "U5305">>,
                   <<"U62CE", "U5305">>,
                   <<"h", "a", "n", "d", "b", "a", "g">>>>],
    [token |-> "shoulder-bag",
     patterns |-> <<<<"U5355", "U80A9", "U5305">>,
                   <<"U80A9", "U5305">>,
                   <<"U659C", "U630E", "U5305">>>>],
    [token |-> "crossbody-bag",
     patterns |-> <<<<"U659C", "U630E", "U5305">>,
                   <<"U8DE8", "U5305">>>>],
    [token |-> "backpack",
     patterns |-> <<<<"U53CC", "U80A9", "U5305">>,
                   <<"U80CC", "U5305">>,
                   <<"U4E66", "U5305">>>>],
    [token |-> "tote-bag",
     patterns |-> <<<<"U6258", "U7279", "U5305">>,
                   <<"t", "o", "t", "e">>,
                   <<"U5927", "U5BB9", "U91CF", "U5305">>>>],
    [token |-> "clutch",
     patterns |-> <<<<"U624B", "U62FF", "U5305">>,
                   <<"U665A", "U5BB4", "U5305">>,
                   <<"c", "l", "u", "t", "c", "h">>>>],
    [token |-> "wallet",
     patterns |-> <<<<"U94B1", "U5305">>,
                   <<"U76AE", "U5939">>,
                   <<"U957F", "U6B3E", "U94B1", "U5305">>,
                   <<"U77ED", "U6B3E", "U94B1", "U5305">>>>],
    [token |-> "purse",
     patterns |-> <<<<"U96F6", "U94B1", "U5305">>,
                   <<"U5C0F", "U5305">>>>],
    [token |-> "belt-bag",
     patterns |-> <<<<"U8170", "U5305">>,
                   <<"U80F8", "U5305">>>>],
    [token |-> "messenger-bag",
     patterns |-> <<<<"U90AE", "U5DEE", "U5305">>,
                   <<"U4FE1", "U4F7F", "U5305">>>>],
    [token |-> "backpack-purse",
     patterns |-> <<<<"U53CC", "U80A9", "U5305">>,
                   <<"U80CC", "U5305">>>>]>>

\* const jewelry: Record<string, string[]>
jewelry ==
  <<[token |-> "necklace",
     patterns |-> <<<<"U9879", "U94FE">>,
                   <<"U540A", "U5760">>,
                   <<"p", "e", "n", "d", "a", "n", "t">>,
                   <<"c", "h", "a", "i", "n">>>>],
    [token |-> "choker",
     patterns |-> <<<<"U9888", "U94FE">>,
                   <<"c", "h", "o", "k", "e", "r">>>>],
    [token |-> "earrings",
     patterns |-> <<<<"U8033", "U73AF">>,
                   <<"U8033", "U9489">>,
                   <<"e", "a", "r", "r", "i", "n", "g">>,
                   <<"s", "t", "u", "d">>>>],
    [token |-> "drop-earrings",
     patterns |-> <<<<"U8033", "U5760">>,
                   <<"U957F", "U8033", "U73AF">>>>],
    [token |-> "bracelet",
     patterns |-> <<<<"U624B", "U94FE">>,
                   <<"U624B", "U956F">>,
                   <<"b", "r", "a", "c", "e", "l", "e", "t">>>>],
    [token |-> "bangle",
     patterns |-> <<<<"U624B", "U956F">>,
                   <<"U786C", "U624B", "U956F">>>>],
    [token |-> "ring",
     patterns |-> <<<<"U6212", "U6307">>,
                   <<"U6307", "U73AF">>,
                   <<"w", "e", "d", "d", "i", "n", "g", "-", "r", "i", "n", "g">>,
                   <<"e", "n", "g", "a", "g", "e", "m", "e", "n", "t", "-", "r", "i", "n", "g">>>>],
    [token |-> "brooch",
     patterns |-> <<<<"U80F8", "U9488">>,
                   <<"U80F8", "U82B1">>>>],
    [token |-> "watch",
     patterns |-> <<<<"U624B", "U8868">>,
                   <<"U8155", "U8868">>,
                   <<"U667A", "U80FD", "U624B", "U8868">>>>],
    [token |-> "anklet",
     patterns |-> <<<<"U811A", "U94FE">>>>]>>

\* const accessories: Record<string, string[]>
accessories ==
  <<[token |-> "belt",
     patterns |-> <<<<"U8170", "U5E26">>,
                   <<"U76AE", "U5E26">>,
                   <<"U76AE", "U5E26">>>>],
    [token |-> "scarf",
     patterns |-> <<<<"U56F4", "U5DFE">>,
                   <<"U4E1D", "U5DFE">>,
                   <<"U7F8A", "U7ED2", "U56F4", "U5DFE">>>>],
    [token |-> "hat",
     patterns |-> <<<<"U5E3D", "U5B50">>,
                   <<"U9E2D", "U820C", "U5E3D">>,
                   <<"c", "a", "p">>,
                   <<"U793C", "U5E3D">>>>],
    [token |-> "beanie",
     patterns |-> <<<<"U9488", "U7EC7", "U5E3D">>,
                   <<"U51B7", "U5E3D">>,
                   <<"U6BDB", "U7EBF", "U5E3D">>>>],
    [token |-> "gloves",
     patterns |-> <<<<"U624B", "U5957">>,
                   <<"U76AE", "U624B", "U5957">>,
                   <<"U9488", "U7EC7", "U624B", "U5957">>>>],
    [token |-> "sunglasses",
     patterns |-> <<<<"U592A", "U9633", "U955C">>,
                   <<"U58A8", "U955C">>,
                   <<"s", "u", "n", "g", "l", "a", "s", "s", "e", "s">>>>],
    [token |-> "eyeglasses",
     patterns |-> <<<<"U773C", "U955C">>,
                   <<"U5149", "U5B66", "U955C">>,
                   <<"f", "r", "a", "m", "e">>>>],
    [token |-> "tie",
     patterns |-> <<<<"U9886", "U5E26">>,
                   <<"n", "e", "c", "k", "t", "i", "e">>>>],
    [token |-> "bow-tie",
     patterns |-> <<<<"U9886", "U7ED3">>>>],
    [token |-> "hair-accessory",
     patterns |-> <<<<"U53D1", "U9970">>,
                   <<"U53D1", "U5939">>,
                   <<"U53D1", "U7B8D">>>>]>>

\* const electronics: Record<string, string[]>
electronics ==
  <<[token |-> "smartphone",
     patterns |-> <<<<"U667A", "U80FD", "U624B", "U673A">>,
                   <<"U624B", "U673A">>,
                   <<"i", "p", "h", "o", "n", "e">>,
                   <<"a", "n", "d", "r", "o", "i", "d">>>>],
    [token |-> "phone",
     patterns |-> <<<<"U624B", "U673A">>,
                   <<"U79FB", "U52A8", "U7535", "U8BDD">>>>],
    [token |-> "laptop",
     patterns |-> <<<<"U7B14", "U8BB0", "U672C", "U7535", "U8111">>,
                   <<"U7B14", "U8BB0", "U672C">>,
                   <<"l", "a", "p", "t", "o", "p">>,
                   <<"m", "a", "c", "b", "o", "o", "k">>>>],
    [token |-> "tablet",
     patterns |-> <<<<"U5E73", "U677F", "U7535", "U8111">>,
                   <<"U5E73", "U677F">>,
                   <<"i", "p", "a", "d">>,
                   <<"t", "a", "b", "l", "e", "t">>>>],
    [token |-> "headphones",
     patterns |-> <<<<"U5934", "U6234", "U5F0F", "U8033", "U673A">>,
                   <<"U8033", "U673A">>,
                   <<"h", "e", "a", "d", "p", "h", "o", "n", "e", "s">>,
                   <<"o", "v", "e", "r", "-", "e", "a", "r">>>>],
    [token |-> "earbuds",
     patterns |-> <<<<"U5165", "U8033", "U5F0F", "U8033", "U673A">>,
                   <<"U8033", "U585E">>,
                   <<"e", "a", "r", "b", "u", "d", "s">>,
                   <<"a", "i", "r", "p", "o", "d", "s">>>>],
    [token |-> "speaker",
     patterns |-> <<<<"U97F3", "U7BB1">>,
                   <<"U626C", "U58F0", "U5668">>,
                   <<"U97F3", "U54CD">>,
                   <<"U84DD", "U7259", "U97F3", "U7BB1">>>>],
    [token |-> "camera",
     patterns |-> <<<<"U76F8", "U673A">>,
                   <<"U6444", "U50CF", "U673A">>,
                   <<"U5355", "U53CD">>,
                   <<"U5FAE", "U5355">>,
                   <<"d", "s", "l", "r">>>>],
    [token |-> "smartwatch",
     patterns |-> <<<<"U667A", "U80FD", "U624B", "U8868">>,
                   <<"U667A", "U80FD", "U624B", "U73AF">>>>],
    [token |-> "keyboard",
     patterns |-> <<<<"U952E", "U76D8">>,
                   <<"U673A", "U68B0", "U952E", "U76D8">>>>],
    [token |-> "mouse",
     patterns |-> <<<<"U9F20", "U6807">>,
                   <<"U65E0", "U7EBF", "U9F20", "U6807">>>>],
    [token |-> "charger",
     patterns |-> <<<<"U5145", "U7535", "U5668">>,
                   <<"U5145", "U7535", "U5934">>>>],
    [token |-> "cable",
     patterns |-> <<<<"U6570", "U636E", "U7EBF">>,
                   <<"U5145", "U7535", "U7EBF">>,
                   <<"U8FDE", "U63A5", "U7EBF">>>>],
    [token |-> "case",
     patterns |-> <<<<"U624B", "U673A", "U58F3">>,
                   <<"U4FDD", "U62A4", "U58F3">>,
                   <<"c", "a", "s", "e">>,
                   <<"c", "o", "v", "e", "r">>>>]>>

\* const home: Record<string, string[]>
home ==
  <<[token |-> "coffee-maker",
     patterns |-> <<<<"U5496", "U5561", "U673A">>,
                   <<"U5496", "U5561", "U58F6">>,
                   <<"e", "s", "p", "r", "e", "s", "s", "o">>>>],
    [token |-> "coffee-grinder",
     patterns |-> <<<<"U78E8", "U8C46", "U673A">>,
                   <<"U7814", "U78E8", "U673A">>,
                   <<"U78E8", "U5496", "U5561">>>>],
    [token |-> "kettle",
     patterns |-> <<<<"U7535", "U6C34", "U58F6">>,
                   <<"U70E7", "U6C34", "U58F6">>,
                   <<"U6C34", "U58F6">>>>],
    [token |-> "blender",
     patterns |-> <<<<"U6405", "U62CC", "U673A">>,
                   <<"U69A8", "U6C41", "U673A">>,
                   <<"U7834", "U58C1", "U673A">>>>],
    [token |-> "toaster",
     patterns |-> <<<<"U70E4", "U9762", "U5305", "U673A">>,
                   <<"U591A", "U58EB", "U7089">>>>],
    [token |-> "microwave",
     patterns |-> <<<<"U5FAE", "U6CE2", "U7089">>>>],
    [token |-> "air-fryer",
     patterns |-> <<<<"U7A7A", "U6C14", "U70B8", "U9505">>,
                   <<"U70B8", "U9505">>>>],
    [token |-> "rice-cooker",
     patterns |-> <<<<"U7535", "U996D", "U7172">>,
                   <<"U7535", "U996D", "U9505">>>>],
    [token |-> "mixer",
     patterns |-> <<<<"U53A8", "U5E08", "U673A">>,
                   <<"U548C", "U9762", "U673A">>>>],
    [token |-> "vacuum",
     patterns |-> <<<<"U5438", "U5C18", "U5668">>,
                   <<"U626B", "U5730", "U673A">>>>],
    [token |-> "lamp",
     patterns |-> <<<<"U53F0", "U706F">>,
                   <<"U843D", "U5730", "U706F">>,
                   <<"U540A", "U706F">>,
                   <<"U706F", "U5177">>>>],
    [token |-> "bulb",
     patterns |-> <<<<"U706F", "U6CE1">>,
                   <<"U7167", "U660E">>>>],
    [token |-> "fan",
     patterns |-> <<<<"U98CE", "U6247">>,
                   <<"U7535", "U98CE", "U6247">>,
                   <<"U53F0", "U6247">>>>],
    [token |-> "heater",
     patterns |-> <<<<"U53D6", "U6696", "U5668">>,
                   <<"U7535", "U6696", "U5668">>>>],
    [token |-> "humidifier",
     patterns |-> <<<<"U52A0", "U6E7F", "U5668">>>>],
    [token |-> "dehumidifier",
     patterns |-> <<<<"U9664", "U6E7F", "U673A">>>>],
    [token |-> "purifier",
     patterns |-> <<<<"U51C0", "U5316", "U5668">>,
                   <<"U7A7A", "U6C14", "U51C0", "U5316", "U5668">>>>]>>

\* const furniture: Record<string, string[]>
furniture ==
  <<[token |-> "sofa",
     patterns |-> <<<<"U6C99", "U53D1">>,
                   <<"U771F", "U76AE", "U6C99", "U53D1">>,
                   <<"U5E03", "U827A", "U6C99", "U53D1">>,
                   <<"c", "o", "u", "c", "h">>>>],
    [token |-> "chair",
     patterns |-> <<<<"U6905", "U5B50">>,
                   <<"U9910", "U6905">>,
                   <<"U529E", "U516C", "U6905">>,
                   <<"a", "r", "m", "c", "h", "a", "i", "r">>,
                   <<"U4F11", "U95F2", "U6905">>>>],
    [token |-> "table",
     patterns |-> <<<<"U684C", "U5B50">>,
                   <<"U9910", "U684C">>,
                   <<"U4E66", "U684C">>,
                   <<"c", "o", "f", "f", "e", "e", "-", "t", "a", "b", "l", "e">>,
                   <<"U8336", "U51E0">>>>],
    [token |-> "desk",
     patterns |-> <<<<"U4E66", "U684C">>,
                   <<"U529E", "U516C", "U684C">>,
                   <<"U5199", "U5B57", "U53F0">>>>],
    [token |-> "bed",
     patterns |-> <<<<"U5E8A">>,
                   <<"U53CC", "U4EBA", "U5E8A">>,
                   <<"U5355", "U4EBA", "U5E8A">>,
                   <<"U5E8A", "U67B6">>>>],
    [token |-> "mattress",
     patterns |-> <<<<"U5E8A", "U57AB">>,
                   <<"U5F39", "U7C27", "U5E8A", "U57AB">>>>],
    [token |-> "cabinet",
     patterns |-> <<<<"U67DC", "U5B50">>,
                   <<"U50A8", "U7269", "U67DC">>,
                   <<"U7535", "U89C6", "U67DC">>,
                   <<"s", "i", "d", "e", "b", "o", "a", "r", "d">>>>],
    [token |-> "shelf",
     patterns |-> <<<<"U67B6", "U5B50">>,
                   <<"U4E66", "U67B6">>,
                   <<"U7F6E", "U7269", "U67B6">>>>],
    [token |-> "wardrobe",
     patterns |-> <<<<"U8863", "U67DC">>,
                   <<"U8863", "U6A71">>>>],
    [token |-> "drawer",
     patterns |-> <<<<"U62BD", "U5C49">>,
                   <<"U5E8A", "U5934", "U67DC">>,
                   <<"b", "e", "d", "s", "i", "d", "e", "-", "t", "a", "b", "l", "e">>>>]>>

\* const kitchen: Record<string, string[]>
kitchen ==
  <<[token |-> "cookware",
     patterns |-> <<<<"U9505", "U5177">>,
                   <<"U7092", "U9505">>,
                   <<"U6C64", "U9505">>,
                   <<"U5E73", "U5E95", "U9505">>>>],
    [token |-> "knife",
     patterns |-> <<<<"U5200", "U5177">>,
                   <<"U83DC", "U5200">>,
                   <<"c", "h", "e", "f", "-", "k", "n", "i", "f", "e">>>>],
    [token |-> "cutting-board",
     patterns |-> <<<<"U7827", "U677F">>,
                   <<"U5207", "U83DC", "U677F">>>>],
    [token |-> "dinnerware",
     patterns |-> <<<<"U9910", "U5177">>,
                   <<"U7897", "U789F">>,
                   <<"U76D8", "U5B50">>,
                   <<"p", "l", "a", "t", "e">>>>],
    [token |-> "flatware",
     patterns |-> <<<<"U5200", "U53C9">>,
                   <<"U52FA", "U5B50">>,
                   <<"c", "u", "t", "l", "e", "r", "y">>>>],
    [token |-> "glassware",
     patterns |-> <<<<"U73BB", "U7483", "U676F">>,
                   <<"U6C34", "U676F">>,
                   <<"U9152", "U676F">>>>],
    [token |-> "storage",
     patterns |-> <<<<"U6536", "U7EB3", "U76D2">>,
                   <<"U4FDD", "U9C9C", "U76D2">>,
                   <<"U50A8", "U7269", "U7F50">>>>]>>

\* const beauty: Record<string, string[]>
beauty ==
  <<[token |-> "foundation",
     patterns |-> <<<<"U7C89", "U5E95", "U6DB2">>,
                   <<"U7C89", "U5E95">>,
                   <<"U5E95", "U5986">>>>],
    [token |-> "lipstick",
     patterns |-> <<<<"U53E3", "U7EA2">>,
                   <<"U5507", "U818F">>,
                   <<"l", "i", "p", "s", "t", "i", "c", "k">>,
                   <<"l", "i", "q", "u", "i", "d", "-", "l", "i", "p", "s", "t", "i", "c", "k">>>>],
    [token |-> "lip-gloss",
     patterns |-> <<<<"U5507", "U91C9">>,
                   <<"U5507", "U871C">>,
                   <<"l", "i", "p", "-", "g", "l", "o", "s", "s">>>>],
    [token |-> "mascara",
     patterns |-> <<<<"U776B", "U6BDB", "U818F">>,
                   <<"m", "a", "s", "c", "a", "r", "a">>>>],
    [token |-> "eyeliner",
     patterns |-> <<<<"U773C", "U7EBF", "U7B14">>,
                   <<"U773C", "U7EBF">>>>],
    [token |-> "eyeshadow",
     patterns |-> <<<<"U773C", "U5F71">>,
                   <<"p", "a", "l", "e", "t", "t", "e">>>>],
    [token |-> "skincare",
     patterns |-> <<<<"U62A4", "U80A4">>,
                   <<"U62A4", "U80A4", "U54C1">>,
                   <<"U62A4", "U80A4", "U5957", "U88C5">>>>],
    [token |-> "serum",
     patterns |-> <<<<"U7CBE", "U534E", "U6DB2">>,
                   <<"U7CBE", "U534E">>,
                   <<"s", "e", "r", "u", "m">>>>],
    [token |-> "moisturizer",
     patterns |-> <<<<"U9762", "U971C">>,
                   <<"U4E73", "U6DB2">>,
                   <<"U4FDD", "U6E7F", "U971C">>>>],
    [token |-> "cleanser",
     patterns |-> <<<<"U6D01", "U9762">>,
                   <<"U6D17", "U9762", "U5976">>,
                   <<"U6D01", "U9762", "U4E73">>>>],
    [token |-> "toner",
     patterns |-> <<<<"U723D", "U80A4", "U6C34">>,
                   <<"U5316", "U5986", "U6C34">>,
                   <<"U6C34">>>>],
    [token |-> "mask",
     patterns |-> <<<<"U9762", "U819C">>,
                   <<"f", "a", "c", "e", "-", "m", "a", "s", "k">>>>],
    [token |-> "perfume",
     patterns |-> <<<<"U9999", "U6C34">>,
                   <<"f", "r", "a", "g", "r", "a", "n", "c", "e">>,
                   <<"c", "o", "l", "o", "g", "n", "e">>>>],
    [token |-> "makeup-brush",
     patterns |-> <<<<"U5316", "U5986", "U5237">>,
                   <<"U7F8E", "U5986", "U86CB">>,
                   <<"U5DE5", "U5177">>>>]>>

\* const sports: Record<string, string[]>
sports ==
  <<[token |-> "yoga-mat",
     patterns |-> <<<<"U745C", "U4F3D", "U57AB">>,
                   <<"U5065", "U8EAB", "U57AB">>>>],
    [token |-> "dumbbell",
     patterns |-> <<<<"U54D1", "U94C3">>,
                   <<"U58F6", "U94C3">>>>],
    [token |-> "resistance-band",
     patterns |-> <<<<"U5F39", "U529B", "U5E26">>,
                   <<"U62C9", "U529B", "U5668">>>>],
    [token |-> "tent",
     patterns |-> <<<<"U5E10", "U7BF7">>,
                   <<"U9732", "U8425", "U5E10", "U7BF7">>>>],
    [token |-> "sleeping-bag",
     patterns |-> <<<<"U7761", "U888B">>>>],
    [token |-> "backpack",
     patterns |-> <<<<"U767B", "U5C71", "U5305">>,
                   <<"U65C5", "U884C", "U5305">>,
                   <<"h", "i", "k", "i", "n", "g", "-", "b", "a", "c", "k", "p", "a", "c", "k">>>>],
    [token |-> "water-bottle",
     patterns |-> <<<<"U6C34", "U58F6">>,
                   <<"U8FD0", "U52A8", "U6C34", "U58F6">>>>]>>

\* const baby: Record<string, string[]>
baby ==
  <<[token |-> "diaper",
     patterns |-> <<<<"U5C3F", "U5E03">>,
                   <<"U7EB8", "U5C3F", "U88E4">>,
                   <<"d", "i", "a", "p", "e", "r">>>>],
    [token |-> "baby-clothes",
     patterns |-> <<<<"U7AE5", "U88C5">>,
                   <<"U5A74", "U513F", "U88C5">>,
                   <<"b", "a", "b", "y", "-", "c", "l", "o", "t", "h", "e", "s">>>>],
    [token |-> "stroller",
     patterns |-> <<<<"U5A74", "U513F", "U8F66">>,
                   <<"U63A8", "U8F66">>>>],
    [token |-> "baby-carrier",
     patterns |-> <<<<"U5A74", "U513F", "U80CC", "U5E26">>,
                   <<"U8170", "U51F3">>>>],
    [token |-> "baby-bottle",
     patterns |-> <<<<"U5976", "U74F6">>,
                   <<"U6C34", "U676F">>>>],
    [token |-> "pacifier",
     patterns |-> <<<<"U5976", "U5634">>,
                   <<"U5B89", "U629A", "U5976", "U5634">>>>],
    [token |-> "toy",
     patterns |-> <<<<"U73A9", "U5177">>,
                   <<"U76CA", "U667A", "U73A9", "U5177">>,
                   <<"p", "l", "u", "s", "h", "-", "t", "o", "y">>>>]>>

\* const pet: Record<string, string[]>
pet ==
  <<[token |-> "pet-bed",
     patterns |-> <<<<"U5BA0", "U7269", "U5E8A">>,
                   <<"U732B", "U7A9D">>,
                   <<"U72D7", "U7A9D">>>>],
    [token |-> "pet-food",
     patterns |-> <<<<"U5BA0", "U7269", "U7CAE">>,
                   <<"U732B", "U7CAE">>,
                   <<"U72D7", "U7CAE">>>>],
    [token |-> "pet-toy",
     patterns |-> <<<<"U5BA0", "U7269", "U73A9", "U5177">>,
                   <<"U732B", "U73A9", "U5177">>,
                   <<"U72D7", "U73A9", "U5177">>>>],
    [token |-> "leash",
     patterns |-> <<<<"U7275", "U5F15", "U7EF3">>,
                   <<"U72D7", "U7EF3">>>>],
    [token |-> "collar",
     patterns |-> <<<<"U9879", "U5708">>,
                   <<"p", "e", "t", "-", "c", "o", "l", "l", "a", "r">>>>],
    [token |-> "litter-box",
     patterns |-> <<<<"U732B", "U7802", "U76C6">>>>]>>

\* const scenes: Record<string, string[]>
scenes ==
  <<[token |-> "office",
     patterns |-> <<<<"U529E", "U516C">>,
                   <<"U529E", "U516C", "U5BA4">>,
                   <<"w", "o", "r", "k">>>>],
    [token |-> "home",
     patterns |-> <<<<"U5BB6", "U5C45">>,
                   <<"U5BB6", "U7528">>,
                   <<"h", "o", "m", "e">>>>],
    [token |-> "outdoor",
     patterns |-> <<<<"U6237", "U5916">>,
                   <<"U65C5", "U884C">>,
                   <<"t", "r", "a", "v", "e", "l">>>>],
    [token |-> "party",
     patterns |-> <<<<"U6D3E", "U5BF9">>,
                   <<"U665A", "U5BB4">>,
                   <<"p", "a", "r", "t", "y">>>>],
    [token |-> "wedding",
     patterns |-> <<<<"U5A5A", "U793C">>,
                   <<"U5A5A", "U5E86">>,
                   <<"w", "e", "d", "d", "i", "n", "g">>>>],
    [token |-> "casual",
     patterns |-> <<<<"U65E5", "U5E38">>,
                   <<"U4F11", "U95F2">>,
                   <<"c", "a", "s", "u", "a", "l">>>>],
    [token |-> "business",
     patterns |-> <<<<"U5546", "U52A1">>,
                   <<"U6B63", "U5F0F">>,
                   <<"b", "u", "s", "i", "n", "e", "s", "s">>>>]>>

\* const seasons: Record<string, string[]>
seasons ==
  <<[token |-> "spring",
     patterns |-> <<<<"U6625">>,
                   <<"U6625", "U5B63">>,
                   <<"s", "p", "r", "i", "n", "g">>>>],
    [token |-> "summer",
     patterns |-> <<<<"U590F">>,
                   <<"U590F", "U5B63">>,
                   <<"s", "u", "m", "m", "e", "r">>>>],
    [token |-> "autumn",
     patterns |-> <<<<"U79CB">>,
                   <<"U79CB", "U5B63">>,
                   <<"a", "u", "t", "u", "m", "n">>,
                   <<"f", "a", "l", "l">>>>],
    [token |-> "winter",
     patterns |-> <<<<"U51AC">>,
                   <<"U51AC", "U5B63">>,
                   <<"w", "i", "n", "t", "e", "r">>>>],
    [token |-> "all-season",
     patterns |-> <<<<"U56DB", "U5B63">>,
                   <<"U5168", "U5E74">>,
                   <<"a", "l", "l", "-", "s", "e", "a", "s", "o", "n">>>>]>>

\* const sizes: Record<string, string[]>
sizes ==
  <<[token |-> "mini",
     patterns |-> <<<<"U8FF7", "U4F60">>,
                   <<"U5C0F", "U578B">>,
                   <<"m", "i", "n", "i">>,
                   <<"U5C0F", "U53F7">>>>],
    [token |-> "small",
     patterns |-> <<<<"U5C0F">>,
                   <<"s", "m">>,
                   <<"s">>>>],
    [token |-> "medium",
     patterns |-> <<<<"U4E2D">>,
                   <<"m">>,
                   <<"m", "d">>>>],
    [token |-> "large",
     patterns |-> <<<<"U5927">>,
                   <<"l">>,
                   <<"l", "g">>>>],
    [token |-> "xlarge",
     patterns |-> <<<<"U7279", "U5927">>,
                   <<"x", "l">>,
                   <<"U52A0", "U5927">>>>],
    [token |-> "plus-size",
     patterns |-> <<<<"U52A0", "U80A5">>,
                   <<"U5927", "U7801">>,
                   <<"p", "l", "u", "s">>>>],
    [token |-> "oversized",
     patterns |-> <<<<"U5BBD", "U677E">>,
                   <<"U5927", "U7248", "U578B">>>>]>>

\* \w and \b of a regular expression without the u flag
WordChars == LowerChars \cup {UpperSeq[k] : k \in 1..26} \cup DigitChars \cup {"_"}
isWordAt(s, i) == i \in 1..Len(s) /\ s[i] \in WordChars
boundaryAt(s, i) == isWordAt(s, i - 1) # isWordAt(s, i)

\* p matches at the start of s, each "-" or "_" of p standing for [-_]?
RECURSIVE looseAt(_, _)
looseAt(s, p) ==
  IF p = <<>> THEN TRUE
  ELSE IF Head(p) \in {"-", "_"}
       THEN \/ s # <<>> /\ Head(s) \in {"-", "_"} /\ looseAt(Tail(s), Tail(p))
            \/ looseAt(s, Tail(p))
       ELSE s # <<>> /\ Head(s) = Head(p) /\ looseAt(Tail(s), Tail(p))

\* How a loop tests one pattern p against name (name and the patterns are in
\* lower case, so the i flag changes nothing):
\*   "includes"  name.includes(p)
\*   "word"      new RegExp(`\\b${p}\\w*|${p}`, 'i').test(name)
\*   "loose"     new RegExp(`\\b${p.replace(/[-_]/g, '[-_]?')}\\w*|${p}`, 'i').test(name)
\* (no pattern holds a character that is special in a regular expression)
testPattern(mode, name, p) ==
  \/ includes(name, p)
  \/ /\ mode = "word"
     /\ \E i \in 1..Len(name) : boundaryAt(name, i) /\ startsWith(SubSeq(name, i, Len(name)), p)
  \/ /\ mode = "loose"
     /\ \E i \in 1..(Len(name) + 1) :
          boundaryAt(name, i) /\ looseAt(SubSeq(name, i, Len(name)), p)

\* patterns.some(p => ...)
someMatch(entry, mode, name) ==
  \E k \in 1..Len(entry.patterns) : testPattern(mode, name, entry.patterns[k])

\* a loop with break: the token of the first entry that matches, if any
firstMatch(entries, mode, name) ==
  IF \E k \in 1..Len(entries) : someMatch(entries[k], mode, name)
  THEN <<entries[CHOOSE k \in 1..Len(entries) :
                   /\ someMatch(entries[k], mode, name)
                   /\ \A j \in 1..(k - 1) : ~someMatch(entries[j], mode, name)].token>>
  ELSE <<>>

\* a loop without break: the token of every entry that matches, in order
RECURSIVE allMatches(_, _, _)
allMatches(entries, mode, name) ==
  IF entries = <<>> THEN <<>>
  ELSE (IF someMatch(Head(entries), mode, name) THEN <<Head(entries).token>> ELSE <<>>)
         \o allMatches(Tail(entries), mode, name)

maxLen(entry) ==
  CHOOSE n \in {Len(entry.patterns[k]) : k \in 1..Len(entry.patterns)} :
    \A k \in 1..Len(entry.patterns) : Len(entry.patterns[k]) <= n

\* Object.entries(clothing).sort((a, b) => bMaxLen - aMaxLen): a stable sort,
\* the entry with the longest pattern first
RECURSIVE insertByMaxLen(_, _)
insertByMaxLen(sorted, entry) ==
  IF sorted = <<>> THEN <<entry>>
  ELSE IF maxLen(Head(sorted)) >= maxLen(entry)
       THEN <<Head(sorted)>> \o insertByMaxLen(Tail(sorted), entry)
       ELSE <<entry>> \o sorted
RECURSIVE sortByMaxLen(_, _)
sortByMaxLen(sorted, rest) ==
  IF rest = <<>> THEN sorted
  ELSE sortByMaxLen(insertByMaxLen(sorted, Head(rest)), Tail(rest))
clothingEntries == sortByMaxLen(<<>>, clothing)

colorsKeywords(name) == firstMatch(colors, "word", name)

materialsKeywords(name) == firstMatch(materials, "word", name)

stylesKeywords(name) == firstMatch(styles, "includes", name)

clothingKeywords(name) == firstMatch(clothingEntries, "loose", name)

shoesKeywords(name) == firstMatch(shoes, "includes", name)

bagsKeywords(name) == firstMatch(bags, "includes", name)

jewelryKeywords(name) == firstMatch(jewelry, "includes", name)

accessoriesKeywords(name) == firstMatch(accessories, "includes", name)

electronicsKeywords(name) == firstMatch(electronics, "includes", name)

\* the home loop has no break: every entry with a matching pattern is pushed
homeKeywords_firstOnly(name) == firstMatch(home, "includes", name)

homeKeywords(name) == allMatches(home, "includes", name)

furnitureKeywords(name) == firstMatch(furniture, "includes", name)

kitchenKeywords(name) == firstMatch(kitchen, "includes", name)

beautyKeywords(name) == firstMatch(beauty, "includes", name)

sportsKeywords(name) == firstMatch(sports, "includes", name)

babyKeywords(name) == firstMatch(baby, "includes", name)

petKeywords(name) == firstMatch(pet, "includes", name)

scenesKeywords(name) == firstMatch(scenes, "includes", name)

seasonsKeywords(name) == firstMatch(seasons, "includes", name)

sizesKeywords(name) == firstMatch(sizes, "includes", name)

\* const name = cleaned.length > 2 ? cleaned : fileName.toLowerCase()
analyzedName(fileName) ==
  IF Len(cleanFileName(fileName)) > 2 THEN cleanFileName(fileName) ELSE toLowerCase(fileName)

\* what each category loop pushes, in the order of the loops
categoryKeywords(fileName) ==
  LET name == analyzedName(fileName)
  IN <<colorsKeywords(name), materialsKeywords(name), stylesKeywords(name),
       clothingKeywords(name), shoesKeywords(name), bagsKeywords(name),
       jewelryKeywords(name), accessoriesKeywords(name), electronicsKeywords(name),
       homeKeywords(name), furnitureKeywords(name), kitchenKeywords(name),
       beautyKeywords(name), sportsKeywords(name), babyKeywords(name), petKeywords(name),
       scenesKeywords(name), seasonsKeywords(name), sizesKeywords(name)>>

\* the place of the home loop among the category loops
HomeCategory == 10

RECURSIVE flatten(_)
flatten(seqs) == IF seqs = <<>> THEN <<>> ELSE Head(seqs) \o flatten(Tail(seqs))

analyzeFileName(fileName) == flatten(categoryKeywords(fileName))

-----------------------------------------------------------------------------
(* analyzeFileName on its own: the file name is made of at most MaxWords   *)
(* words                                                                   *)

ClassifyWords ==
  {<<"U5496", "U5561", "U673A">>,
   <<"U7814", "U78E8", "U673A">>,
   <<"E", "s", "p", "r", "e", "s", "s", "o">>,
   <<"U7EA2", "U767D", "U5E95", "U56FE">>,
   <<"_">>,
   <<"I", "M", "G", "_">>,
   <<".", "p", "n", "g">>}

RECURSIVE wordNames(_)
wordNames(n) ==
  IF n = 0 THEN {<<>>}
  ELSE wordNames(n - 1) \cup {name \o w : name \in wordNames(n - 1), w \in ClassifyWords}

InitClassify ==
  /\ InitApp
  /\ fnIn \in {<<name>> : name \in wordNames(MaxWords) \ {<<>>}}
  /\ fnOut = <<>>

ApplyClassify ==
  /\ fnOut = <<>>
  /\ fnOut' = <<[name |-> analyzedName(fnIn[1]),
                 categories |-> categoryKeywords(fnIn[1]),
                 keywords |-> analyzeFileName(fnIn[1])]>>
  /\ UNCHANGED <<appVars, fnIn>>

NextClassify == ApplyClassify

SpecClassify == InitClassify /\ [][NextClassify]_vars

-----------------------------------------------------------------------------
(* analyzeFileName on names made of garment words                          *)

GarmentWords ==
  {<<"c", "a", "r", "d", "i", "g", "a", "n">>,
   <<"t", "o", "p">>,
   <<"m", "a", "x", "i", "-", "d", "r", "e", "s", "s">>,
   <<"v", "e", "s", "t">>,
   <<"h", "o", "o", "d", "i", "e">>,
   <<" ">>,
   <<".", "j", "p", "g">>}

RECURSIVE garmentNames(_)
garmentNames(n) ==
  IF n = 0 THEN {<<>>}
  ELSE garmentNames(n - 1) \cup {name \o w : name \in garmentNames(n - 1), w \in GarmentWords}

InitGarment ==
  /\ InitApp
  /\ fnIn \in {<<name>> : name \in garmentNames(MaxWords) \ {<<>>}}
  /\ fnOut = <<>>

SpecGarment == InitGarment /\ [][NextClassify]_vars

-----------------------------------------------------------------------------
(* analyzeImage: the recognizer's tokens, then the file name's, without    *)
(* repeats, or 'product'                                                   *)

MaxVisual == 2         \* most tokens the recognizer returns in one outcome

\* Array.from(new Set(allKeywords)): a Set keeps a value at its first insertion
RECURSIVE ArrayFromSet_keepLast(_)
ArrayFromSet_keepLast(allKeywords) ==
  IF allKeywords = <<>> THEN <<>>
  ELSE LET rest == ArrayFromSet_keepLast(Tail(allKeywords))
       IN IF \E k \in 1..Len(rest) : rest[k] = Head(allKeywords)
          THEN rest
          ELSE <<Head(allKeywords)>> \o rest

RECURSIVE ArrayFromSet(_)
ArrayFromSet(allKeywords) ==
  IF allKeywords = <<>> THEN <<>>
  ELSE LET n == Len(allKeywords)
           inserted == ArrayFromSet(SubSeq(allKeywords, 1, n - 1))
       IN IF \E k \in 1..Len(inserted) : inserted[k] = allKeywords[n]
          THEN inserted
          ELSE Append(inserted, allKeywords[n])

\* let aiKeywords = []; try { aiKeywords = await recognizeWithAI(file) } catch {}
aiKeywordsOf(recognized) == IF recognized.threw THEN <<>> ELSE recognized.keywords

analyzeImage_noFallback(fileName, recognized) ==
  LET fileNameKeywords == analyzeFileName(fileName)
      uniqueKeywords == ArrayFromSet(aiKeywordsOf(recognized) \o fileNameKeywords)
  IN [fileName |-> fileName,
      suggestedCategory |-> IF uniqueKeywords = <<>> \/ uniqueKeywords[1] = ""
                            THEN "product" ELSE uniqueKeywords[1],
      suggestedKeywords |-> uniqueKeywords]

analyzeImage(fileName, recognized) ==
  LET fileNameKeywords == analyzeFileName(fileName)
      allKeywords == aiKeywordsOf(recognized) \o fileNameKeywords
      deduped == ArrayFromSet(allKeywords)
      uniqueKeywords == IF Len(deduped) = 0 THEN <<"product">> ELSE deduped
  IN [fileName |-> fileName,
      suggestedCategory |-> IF uniqueKeywords[1] = "" THEN "product" ELSE uniqueKeywords[1],
      suggestedKeywords |-> uniqueKeywords]

\* file names: the scenario's, one with a colour and a style, one without any
\* pattern, one with two home appliances
ScenarioName ==
  <<"#", "0", "1", "_", "c", "o", "f", "f", "e", "e", "-", "m", "a", "k", "e", "r", "_", "g", "r", "i", "n", "d", "e", "r", "_", "f", "r", "o", "n", "t", ".", "p", "n", "g">>

RedCasualName ==
  <<"U7EA2", "U4F11", "U95F2", ".", "j", "p", "g">>

PlainName ==
  <<"q", "q", "q", ".", "p", "n", "g">>

AnalyzeNames ==
  {ScenarioName, RedCasualName, PlainName,
   <<"U5496", "U5561", "U673A", "U7814", "U78E8", "U673A", ".", "p", "n", "g">>}

VisualTokens == {"dress", "red", "casual", "product"}

RECURSIVE tokenLists(_)
tokenLists(n) ==
  IF n = 0 THEN {<<>>}
  ELSE tokenLists(n - 1) \cup {Append(l, t) : l \in tokenLists(n - 1), t \in VisualTokens}

\* what recognizeWithAI gives: a list of tokens (possibly empty), or an error
Recognized ==
  {[threw |-> TRUE, keywords |-> <<>>]}
    \cup {[threw |-> FALSE, keywords |-> l] : l \in tokenLists(MaxVisual)}

InitAnalyze ==
  /\ InitApp
  /\ fnIn \in {<<[fileName |-> n, recognized |-> r]>> : n \in AnalyzeNames, r \in Recognized}
  /\ fnOut = <<>>

ApplyAnalyze ==
  /\ fnOut = <<>>
  /\ fnOut' = <<analyzeImage(fnIn[1].fileName, fnIn[1].recognized)>>
  /\ UNCHANGED <<appVars, fnIn>>

NextAnalyze == ApplyAnalyze

SpecAnalyze == InitAnalyze /\ [][NextAnalyze]_vars

-----------------------------------------------------------------------------
(* extractKeywords: up to three words of the file name when the list opens *)
(* with 'product', else category, colour, material and style joined by '-' *)

\* .replace(/\.[^.]+$/, ''): the last dot and what follows it, when something does
dropLastDotPart(s) ==
  LET dots == {k \in 1..Len(s) : s[k] = "."}
  IN IF dots # {} /\ (CHOOSE k \in dots : \A j \in dots : j <= k) < Len(s)
     THEN SubSeq(s, 1, (CHOOSE k \in dots : \A j \in dots : j <= k) - 1)
     ELSE s

\* the ASCII characters outside [a-z\s-] that a cleaned name can hold; every
\* other symbol of a name is a character of 一-龥
AsciiOther == DigitChars \cup {"_", ".", "#", "(", ")", "[", "]"}

\* .replace(/[^a-z一-龥\s-]/g, ' ')
blankOther(s) == [i \in 1..Len(s) |-> IF s[i] \in AsciiOther THEN " " ELSE s[i]]

\* .split(/X+/) for a character class X
RECURSIVE splitRuns(_, _)
splitRuns(s, X) ==
  LET seps == {k \in 1..Len(s) : s[k] \in X}
  IN IF seps = {} THEN <<s>>
     ELSE LET j == CHOOSE k \in seps : \A m \in seps : k <= m
              after == {k \in (j + 1)..Len(s) : s[k] \notin X}
              next == IF after = {} THEN Len(s) + 1
                      ELSE CHOOSE k \in after : \A m \in after : k <= m
          IN <<SubSeq(s, 1, j - 1)>> \o splitRuns(SubSeq(s, next, Len(s)), X)

\* .filter(w => w.length > 2 && !/^\d+$/.test(w)).slice(0, 3)
nameWords(cleaned) ==
  LET all == SelectSeq(splitRuns(blankOther(cleaned), WhiteChars \cup {"-"}),
                       LAMBDA w : Len(w) > 2 /\ \E k \in 1..Len(w) : w[k] \notin DigitChars)
  IN SubSeq(all, 1, IF Len(all) < 3 THEN Len(all) ELSE 3)

colorTokens ==
  {"red", "blue", "green", "yellow", "black", "white", "gray", "grey", "pink",
   "purple", "orange", "brown", "beige", "gold", "silver", "multicolor"}

materialTokens ==
  {"leather", "canvas", "cotton", "silk", "wool", "denim", "linen", "velvet",
   "lace", "knit", "metal", "wood", "ceramic", "glass", "plastic", "rubber",
   "carbon-fiber", "fabric"}

styleTokens ==
  {"casual", "formal", "vintage", "minimalist", "luxury", "cute", "elegant",
   "sport", "classic", "modern", "bohemian", "preppy", "street"}

sizeTokens == {"product", "all-season", "mini", "small", "medium", "large", "xlarge"}

\* list.find(k => set.includes(k)): a one-element list, or none for undefined
find(list, set) ==
  LET hits == SelectSeq(list, LAMBDA k : k \in set)
  IN IF hits = <<>> THEN <<>> ELSE <<hits[1]>>

combine(suggestedKeywords) ==
  LET category == IF suggestedKeywords[1] = "" THEN "product" ELSE suggestedKeywords[1]
      color == find(suggestedKeywords, colorTokens)
      material == find(suggestedKeywords, materialTokens)
      style == find(suggestedKeywords, styleTokens)
      first == IF category # "product" THEN <<category>> ELSE <<>>
      second == first \o color
      third == second \o material
      fourth == IF Len(third) < 3 THEN third \o style ELSE third
      additionalKeywords ==
        SelectSeq(suggestedKeywords,
                  LAMBDA k : /\ k # category
                             /\ <<k>> # color /\ <<k>> # material /\ <<k>> # style
                             /\ k \notin sizeTokens)
      fifth == IF Len(fourth) < 2 /\ Len(suggestedKeywords) > 1 /\ additionalKeywords # <<>>
               THEN Append(fourth, additionalKeywords[1])
               ELSE fourth
      sixth == IF fifth = <<>> THEN <<category>> ELSE fifth
  IN SubSeq(sixth, 1, IF Len(sixth) < 4 THEN Len(sixth) ELSE 4)

\* return finalKeywords || 'product': the join is empty for one empty part
orProduct(parts) == IF parts = <<"">> THEN <<"product">> ELSE parts

\* the steps of extractKeywords after its two calls: the returned string is
\* parts.join('-'), and the model keeps the joined parts, words of the file
\* name (fromName) or tokens of the classification
keywordsFrom(info, cleaned, words, lowered) ==
  IF /\ (Len(info.suggestedKeywords) = 0 \/ info.suggestedKeywords[1] = "product")
     /\ Len(cleaned) > 2
     /\ cleaned # dropLastDotPart(lowered)
     /\ Len(words) > 0
  THEN [fromName |-> TRUE, parts |-> words]
  ELSE [fromName |-> FALSE, parts |-> orProduct(combine(info.suggestedKeywords))]

extractFrom(cleaned, fileName, info) ==
  keywordsFrom(info, cleaned, nameWords(cleaned), toLowerCase(fileName))

extractKeywords(fileName, recognized) ==
  extractFrom(cleanFileName(fileName), fileName, analyzeImage(fileName, recognized))

\* a name without any pattern that cleanFileName changes
TwoWordName ==
  <<"q", "q", "q", "_", "q", "q", "q", ".", "p", "n", "g">>

InitExtract ==
  /\ InitApp
  /\ fnIn \in {<<[fileName |-> n, recognized |-> r]>> :
                 n \in AnalyzeNames \cup {TwoWordName}, r \in Recognized}
  /\ fnOut = <<>>

ApplyExtract ==
  /\ fnOut = <<>>
  /\ fnOut' = <<extractKeywords(fnIn[1].fileName, fnIn[1].recognized)>>
  /\ UNCHANGED <<appVars, fnIn>>

NextExtract == ApplyExtract

SpecExtract == InitExtract /\ [][NextExtract]_vars

-----------------------------------------------------------------------------
(* Claims about the orchestrator (Spec)                                    *)

\* the digits between the last "-" and the "." of an output name
lastPos(name, c) == CHOOSE k \in 1..Len(name) :
                      name[k] = c /\ \A j \in (k + 1)..Len(name) : name[j] # c
embeddedIndex(name) == SubSeq(name, lastPos(name, "-") + 1, lastPos(name, ".") - 1)
extensionOf(name) == SubSeq(name, lastPos(name, ".") + 1, Len(name))

\* C2: the sequence index in the output name of every ProcessedImage is the
\* 1-based position its image had in the batch when it was accepted (hist.ord),
\* whatever was deleted, edited or reprocessed since
C2_IndexIsAcceptanceOrder ==
  \A k \in 1..Len(processed) :
    embeddedIndex(processed[k].seoName) = padStart(String(hist.ord[processed[k].id]), 2)

\* C4: an image that was deleted is neither in files nor in processed, in
\* every later state
C4_DeletedStaysOut ==
  \A id \in hist.deleted : id \notin Ids(files) /\ id \notin Ids(processed)

\* C6: every object URL that was created for a ProcessedImage and not revoked
\* belongs to a ProcessedImage of the result set, or to a result that a batch
\* run in flight still holds and has yet to publish
C6_NoLeakedUrl ==
  liveUrls \subseteq Urls(processed) \cup (IF batch.pc = "await" THEN Urls(batch.results) ELSE {})

\* C9: when a batch run publishes its results, every image of the run has had
\* its transform, each image whose transform succeeded has a record in the
\* result set and no image whose transform failed has one
C9_FailureIsolated ==
  [][(batch.pc = "await" /\ batch'.pc = "idle") =>
       LET run == batch'.last
       IN /\ Len(run.outcome) = Len(run.ids)
          /\ \A k \in 1..Len(run.ids) :
               /\ run.outcome[k] = "ok" => run.ids[k] \in Ids(processed')
               /\ run.outcome[k] = "failed" => run.ids[k] \notin Ids(processed')]_vars

\* a run over two images has ended: the first failed, the second succeeded and
\* is in the result set
C9_Witness ==
  /\ batch.pc = "idle"
  /\ batch.last.outcome = <<"failed", "ok">>
  /\ Ids(processed) = {batch.last.ids[2]}

\* the ids whose processSingleImage call is in flight, one entry per call
inFlight ==
  (IF batch.pc = "await" THEN <<batch.files[batch.i + 1].id>> ELSE <<>>)
    \o [k \in 1..Len(singles) |-> singles[k].imageId]

\* C5: no image id has two transforms in flight at the same time
C5_OneTransformPerImage ==
  \A j, k \in 1..Len(inFlight) : j # k => inFlight[j] # inFlight[k]

\* the size of the last blob the encoder produced for the call in fnIn
finalEncodedSize ==
  encodeCalls(fnIn[1].input.file, fnIn[1].env)[Len(encodeCalls(fnIn[1].input.file, fnIn[1].env))].size

\* the file extension that goes with a content type
extensionOfType(type) ==
  CASE type = JPEG -> <<"j", "p", "g">>
    [] type = PNG -> <<"p", "n", "g">>
    [] type = WEBP -> <<"w", "e", "b", "p">>
    [] type = HEIC -> <<"h", "e", "i", "c">>
    [] type = HEIF -> <<"h", "e", "i", "f">>

\* C3: for every accepted content type, when the final encoded size exceeds the
\* original size the result carries the original bytes and its name ends in
\* the extension of the original content type
C3_FallbackKeepsOriginal ==
  (Len(fnOut) = 1 /\ fnOut[1] # Null /\ finalEncodedSize > fnIn[1].input.file.size)
    => /\ fnOut[1].blob = fnIn[1].input.file
       /\ extensionOf(fnOut[1].seoName) = extensionOfType(fnIn[1].input.file.type)

\* the supported items of the latest submission, in submission order
supportedOfSub ==
  SelectSeq(hist.sub.fileList, LAMBDA f : f.type \in {JPEG, PNG, WEBP, HEIC, HEIF})

\* C7: the batch never holds more than 10 images; a submission of k supported
\* items into a batch of n images accepts exactly the first min(k, 10 - n) of
\* them in submission order, behind the images already there, and raises the
\* limit message when k > 10 - n
C7_CapacityAndTruncation ==
  /\ Len(files) <= 10
  /\ hist.sub # NoSub =>
       LET n == Len(hist.sub.before)
           k == Len(supportedOfSub)
           m == Min(k, 10 - n)
       IN /\ Len(files) = n + m
          /\ \A j \in 1..n : files[j] = hist.sub.before[j]
          /\ \A j \in 1..m : files[n + j].file = supportedOfSub[j]
          /\ k > 10 - n => message = "messageLimit"

\* twelve supported items into an empty batch: ten accepted, warning raised
C7_Witness ==
  /\ hist.sub # NoSub
  /\ hist.sub.before = <<>>
  /\ Len(supportedOfSub) = 12
  /\ Len(files) = 10
  /\ message = "messageLimit"

\* C8: a submission holding at least one item of a type outside the allow-list
\* raises the unsupported-type message, adds no such item and leaves the
\* images already in the batch as they were
C8_UnsupportedSignalled ==
  (hist.sub # NoSub /\ Len(supportedOfSub) < Len(hist.sub.fileList))
    => /\ message = "messageInvalidType"
       /\ \A j \in 1..Len(files) : files[j].file.type # GIF
       /\ SubSeq(files, 1, Len(hist.sub.before)) = hist.sub.before

\* the home-appliance tokens with a pattern that occurs in the analysed name,
\* in dictionary order
homeTokensIn(name) ==
  LET hit == {k \in 1..Len(home) :
                \E j \in 1..Len(home[k].patterns) :
                  \E i \in 1..(Len(name) - Len(home[k].patterns[j]) + 1) :
                    SubSeq(name, i, i + Len(home[k].patterns[j]) - 1) = home[k].patterns[j]}
      nth[n \in 1..Cardinality(hit)] ==
        CHOOSE k \in hit : Cardinality({h \in hit : h < k}) = n - 1
  IN [n \in 1..Cardinality(hit) |-> home[nth[n]].token]

\* C10: the home-appliance category contributes every token that has a
\* pattern occurring in the name, all of them and in dictionary order, and
\* every other category contributes at most one token
C10_HomeCollectsAll ==
  Len(fnOut) = 1 =>
    /\ fnOut[1].categories[HomeCategory] = homeTokensIn(fnOut[1].name)
    /\ \A c \in 1..Len(fnOut[1].categories) :
         c # HomeCategory => Len(fnOut[1].categories[c]) <= 1

\* a name with a coffee-maker pattern and a coffee-grinder pattern yields both
\* tokens, while its two colour words (red, white) yield one colour
C10_Witness ==
  /\ Len(fnOut) = 1
  /\ fnOut[1].categories[HomeCategory] = <<"coffee-maker", "coffee-grinder">>
  /\ fnOut[1].categories[1] = <<"red">>
  /\ fnOut[1].keywords = <<"red", "coffee-maker", "coffee-grinder">>

-----------------------------------------------------------------------------
(* Claims about analyzeImage (SpecAnalyze)                                 *)

visualTokens == aiKeywordsOf(fnIn[1].recognized)

fileNameTokens == analyzeFileName(fnIn[1].fileName)

tokensOf(list) == {list[k] : k \in 1..Len(list)}

\* the elements of a list whose value does not occur before them, in order
RECURSIVE dedupFirst(_)
dedupFirst(list) ==
  IF list = <<>> THEN <<>>
  ELSE <<Head(list)>> \o dedupFirst(SelectSeq(Tail(list), LAMBDA t : t # Head(list)))

\* C11: the file name "#01_coffee-maker_grinder_front.png", classified with
\* no token from the recognizer, gives a list that holds both 'coffee-maker'
\* and 'coffee-grinder'.
C11_ScenarioFindsBoth ==
  (fnOut # <<>> /\ fnIn[1].fileName = ScenarioName /\ visualTokens = <<>>)
    => {"coffee-maker", "coffee-grinder"} \subseteq tokensOf(fnOut[1].suggestedKeywords)

\* C13 as stated: for every recognizer list V and file-name list F the result
\* of analyzeImage is V followed by F with repeats removed, first occurrence
\* kept.
C13_MergeDedup_AllLists ==
  fnOut # <<>> => fnOut[1].suggestedKeywords = dedupFirst(visualTokens \o fileNameTokens)

\* C13: whenever the recognizer's list V or the file name's list F holds a
\* token, the result of analyzeImage is V followed by F with repeats removed,
\* first occurrence kept; when both are empty the result is the one token
\* 'product'.
C13_MergeDedup ==
  fnOut # <<>> =>
    IF visualTokens \o fileNameTokens # <<>>
    THEN fnOut[1].suggestedKeywords = dedupFirst(visualTokens \o fileNameTokens)
    ELSE fnOut[1].suggestedKeywords = <<"product">>

C13_Witness ==
  /\ fnOut # <<>>
  /\ visualTokens = <<"dress", "red">>
  /\ fileNameTokens = <<"red", "casual", "casual">>
  /\ fnOut[1].suggestedKeywords = <<"dress", "red", "casual">>

\* C19 as stated: the list analyzeImage returns is never empty, and it is
\* the one token 'product' exactly when neither the recognizer nor the file
\* name produced a token.
C19_ProductIffNoToken ==
  fnOut # <<>> =>
    /\ Len(fnOut[1].suggestedKeywords) > 0
    /\ fnOut[1].suggestedKeywords = <<"product">>
         <=> (visualTokens = <<>> /\ fileNameTokens = <<>>)

\* C19: the list analyzeImage returns is never empty; it is the one token
\* 'product' when neither the recognizer (tokens, none, or an error) nor the
\* file name produced a token, and it is the one token 'product' only when
\* no path produced any other token.
C19_NeverEmpty ==
  fnOut # <<>> =>
    /\ Len(fnOut[1].suggestedKeywords) > 0
    /\ (visualTokens = <<>> /\ fileNameTokens = <<>>)
         => fnOut[1].suggestedKeywords = <<"product">>
    /\ fnOut[1].suggestedKeywords = <<"product">>
         => tokensOf(visualTokens \o fileNameTokens) \subseteq {"product"}

C19_Witness ==
  /\ fnOut # <<>>
  /\ fnIn[1].recognized.threw
  /\ fileNameTokens = <<>>
  /\ fnOut[1].suggestedKeywords = <<"product">>

-----------------------------------------------------------------------------
(* Claims about the clothing loop (SpecGarment)                            *)

ClothingCategory == 4

\* the length of the longest pattern of a clothing entry that the name
\* matches, 0 when none does
longestHit(entry, name) ==
  LET hits == {k \in 1..Len(entry.patterns) : testPattern("loose", name, entry.patterns[k])}
  IN IF hits = {} THEN 0
     ELSE CHOOSE l \in {Len(entry.patterns[k]) : k \in hits} :
            \A k \in hits : Len(entry.patterns[k]) <= l

\* C12: when the name matches a pattern of one clothing entry and a shorter
\* pattern of another entry, the clothing category contributes the token of
\* the entry that owns the longer matching pattern, never the token of the
\* entry that owns the shorter one.
C12_LongerPatternWins ==
  fnOut # <<>> =>
    \A k \in 1..Len(clothing) :
      fnOut[1].categories[ClothingCategory] = <<clothing[k].token>>
        => \A j \in 1..Len(clothing) :
             longestHit(clothing[j], fnOut[1].name) <= longestHit(clothing[k], fnOut[1].name)

-----------------------------------------------------------------------------
(* Claims about the output name and the saving (SpecTransform)             *)

isDigits(s) == \A k \in 1..Len(s) : \E d \in 0..9 : <<s[k]>> = DigitOf(d)

\* the number a string of decimal digits denotes
RECURSIVE digitsValue(_)
digitsValue(s) ==
  IF s = <<>> THEN 0
  ELSE digitsValue(SubSeq(s, 1, Len(s) - 1)) * 10
         + (CHOOSE d \in 0..9 : <<s[Len(s)]>> = DigitOf(d))

\* C14: the output name of every ProcessedImage is sanitizeKeyword(keyword),
\* or 'product' when that is empty, then '-', then the sequence index (the
\* position counted from 1) in decimal with at least 2 digits, zero-padded
\* below 10 and at its natural width from 100 on, then '.', then the
\* extension; "Summer Silk Dress!!" at index 1 with a JPEG output gives
\* 'summer-silk-dress-01.jpg'.
C14_NameFormat ==
  (fnOut # <<>> /\ fnOut[1] # Null) =>
    LET name == fnOut[1].seoName
        sanitized == sanitizeKeyword(fnIn[1].keywordToUse)
        digits == embeddedIndex(name)
    IN /\ \E k \in 1..Len(name) : name[k] = "-"
       /\ \E k \in 1..Len(name) : name[k] = "."
       /\ SubSeq(name, 1, lastPos(name, "-") - 1)
            = (IF sanitized = <<>> THEN <<"p", "r", "o", "d", "u", "c", "t">> ELSE sanitized)
       /\ isDigits(digits)
       /\ Len(digits) >= 2
       /\ Len(digits) > 2 => digits[1] # "0"
       /\ digitsValue(digits) = fnIn[1].index + 1
       /\ extensionOf(name) \in {extensionOfType(type) : type \in TargetTypes}
       /\ (fnIn[1].keywordToUse = SummerSilkDress /\ fnIn[1].index = 0
             /\ fnOut[1].blob.type = JPEG)
            => name = <<"s", "u", "m", "m", "e", "r", "-", "s", "i", "l", "k", "-",
                        "d", "r", "e", "s", "s", "-", "0", "1", ".", "j", "p", "g">>

C14_Witness ==
  /\ fnOut # <<>>
  /\ fnOut[1] # Null
  /\ fnIn[1].keywordToUse = SummerSilkDress
  /\ fnIn[1].index = 0
  /\ fnOut[1].blob.type = JPEG
  /\ fnOut[1].blob.size < fnIn[1].input.file.size

\* C15: every ProcessedImage has savedPercent >= 0, whatever the original
\* size (0 bytes included) and the encoded size.
C15_SavedNonNegative ==
  (fnOut # <<>> /\ fnOut[1] # Null) => fnOut[1].savedPercent >= 0

\* the original is kept and its size in KiB was rounded down to one decimal,
\* so the difference the percentage is taken of is negative
C15_Witness ==
  /\ fnOut # <<>>
  /\ fnOut[1] # Null
  /\ fnOut[1].blob = fnIn[1].input.file
  /\ 10 * fnOut[1].blob.size > 1024 * fnOut[1].originalSizeKb
  /\ fnOut[1].originalSizeKb > 0
  /\ fnOut[1].savedPercent = 0

-----------------------------------------------------------------------------
(* Claims about the square crop (SpecCrop)                                 *)

\* twice a coordinate given as whole part and halves
twice(c) == 2 * c.whole + c.halves

\* C16: with the square crop requested, for every width w >= 1 and height
\* h >= 1 the target is size x size with size = min(w, h), and the source
\* rectangle (sx, sy, size, size) lies inside the image and is centered
\* (2*sx = w - size, 2*sy = h - size); without the square crop the source
\* rectangle and the target are the whole w x h image.
C16_SquareCrop ==
  fnOut # <<>> =>
    LET w == fnIn[1].width
        h == fnIn[1].height
        g == fnOut[1]
        size == IF w <= h THEN w ELSE h
    IN IF fnIn[1].forceSquareToUse
       THEN /\ g.targetWidth = size /\ g.targetHeight = size
            /\ g.sWidth = size /\ g.sHeight = size
            /\ 0 <= twice(g.sx) /\ twice(g.sx) + 2 * size <= 2 * w
            /\ 0 <= twice(g.sy) /\ twice(g.sy) + 2 * size <= 2 * h
            /\ twice(g.sx) = w - size
            /\ twice(g.sy) = h - size
       ELSE /\ g.targetWidth = w /\ g.targetHeight = h
            /\ g.sWidth = w /\ g.sHeight = h
            /\ twice(g.sx) = 0 /\ twice(g.sy) = 0

\* a crop whose offset is not a whole number of pixels
C16_Witness ==
  /\ fnOut # <<>>
  /\ fnIn[1].forceSquareToUse
  /\ fnIn[1].width = 5
  /\ fnIn[1].height = 2
  /\ fnOut[1].sx = [whole |-> 1, halves |-> 1]
  /\ fnOut[1].targetWidth = 2

-----------------------------------------------------------------------------
(* Claims about the batch message, blank keywords and the archive (Spec)   *)

\* C18: at the step that ends a batch run the message is the 'done' message
\* if and only if at least one image of that run produced a ProcessedImage,
\* and the 'fail' message otherwise.
C18_MessageReflectsRun ==
  [][(batch.pc = "await" /\ batch'.pc = "idle") =>
       IF \E k \in 1..Len(batch'.last.outcome) : batch'.last.outcome[k] = "ok"
       THEN message' = "messageDone"
       ELSE message' = "messageFail"]_vars

\* a run over two images has just ended without any result
C18_Witness ==
  /\ batch.pc = "idle"
  /\ batch.last.outcome = <<"failed", "failed">>
  /\ message = "messageFail"
  /\ processed = <<>>

\* C17: no ProcessedImage is in the result set whose transform was started
\* while the effective keyword of its image (its own keyword if set, else the
\* global keyword) was empty or blank, whatever the order of keyword edits,
\* batch runs and deferred single-image reprocesses.
C17_NoResultForBlankKeyword ==
  \A k \in 1..Len(processed) : processed[k].downloadUrl \notin hist.blank

\* C20: in every reachable state the output names of the ProcessedImages in
\* the result set are pairwise distinct, so the archive of downloadZip has
\* one entry per ProcessedImage.
C20_NamesDistinct ==
  /\ \A j, k \in 1..Len(processed) :
       j # k => processed[j].seoName # processed[k].seoName
  /\ Cardinality(DOMAIN downloadZip(processed)) = Len(processed)

\* C21: after handleClear the batch and the result set are empty and stay
\* empty until the next submission, also when a batch run or a single-image
\* reprocess was in flight at the clear and completes afterwards.
C21_ClearedStaysEmpty ==
  hist.cleared => files = <<>> /\ processed = <<>>

\* the part of an output name before its last "-"
namedFrom(name) == SubSeq(name, 1, lastPos(name, "-") - 1)

\* C22: when the reprocess that an edit of a processed image's keyword
\* triggered delivers its ProcessedImage, that record is named from the
\* effective keyword as it stood after the edit (the new override if the edit
\* left one, else the global keyword), never from the keyword before the edit.
C22_NamedFromEditedKeyword ==
  [][\A k \in 1..Len(singles) :
       (/\ singles' = RemoveAt(singles, k)
        /\ singles[k].url \in Urls(processed') \ Urls(processed))
         => \A j \in 1..Len(processed') :
              processed'[j].downloadUrl = singles[k].url
                => namedFrom(processed'[j].seoName) = cleanKeyword(singles[k].after)]_vars

\* C23: a batch run transforms every image of the batch whose effective
\* keyword (its override if set, else the global keyword) is non-empty and
\* skips an image only when neither is non-empty, also when the global
\* keyword is blank and some image carries an override: with such an image in
\* a batch that has no run in progress and no results, the run can be started.
C23_RunsOnOverrides ==
  /\ batch.pc = "await" =>
       \A k \in 1..Len(batch.outcome) :
         batch.outcome[k] = "skipped"
           <=> trim(keywordToUse(batch.files[k], batch.keyword)) = <<>>
  /\ (/\ NoEditorOpen
      /\ ~isProcessing
      /\ ~hasProcessedImages
      /\ nextUrl + Len(files) - 1 <= MaxTransforms
      /\ \E k \in 1..Len(files) : ~effectiveBlank(files[k].id))
       => ENABLED Process

\* the image with this id, if it is in the batch, is in Processing
inProcessing(id) == \A j \in 1..Len(files) : files[j].id = id => files[j].isProcessing

\* C24: the result of a transform (Done with progress 100, or Failed) is
\* delivered for an image only while that image is in Processing
\* (isProcessing = true), whatever the order of batch runs, single-image
\* reprocesses and the 500 ms reset timers of earlier runs.
C24_DeliveredWhileProcessing ==
  [][/\ (batch.pc = "await" /\ batch' # batch)
          => inProcessing(batch.files[batch.i + 1].id)
     /\ \A k \in 1..Len(singles) :
          (Len(singles') < Len(singles) /\ singles' = RemoveAt(singles, k))
            => inProcessing(singles[k].imageId)]_vars

\* C25: while an image is in Processing its processingProgress is within
\* 0..100, and from one state to the next it never decreases as long as the
\* image stays in Processing, whatever the order of the batch run's progress
\* updates, the interval ticks of a reprocess and a reprocess started on the
\* same image.
C25_ProgressMonotone ==
  [][\A j \in 1..Len(files), i \in 1..Len(files') :
       (files[j].id = files'[i].id /\ files[j].isProcessing /\ files'[i].isProcessing)
         => /\ files'[i].processingProgress \in 0..100
            /\ files'[i].processingProgress >= files[j].processingProgress]_vars

\* what a step leaves alone of the images other than x: their InputImage
\* state and their ProcessedImage records
othersUnchanged(x) ==
  /\ Len(files') = Len(files)
  /\ \A j \in 1..Len(files) : files[j].id # x => files'[j] = files[j]
  /\ filterOut(processed', x) = filterOut(processed, x)

recordsOf(results, x) == {j \in 1..Len(results) : results[j].id = x}

\* the steps of a single-image reprocess: its start, a tick of its progress
\* interval, its 500 ms reset timer
reprocessFrame ==
  /\ Len(singles') = Len(singles) + 1 => othersUnchanged(singles'[Len(singles')].imageId)
  /\ ProgressTick => \E k \in 1..Len(singles) : othersUnchanged(singles[k].imageId)
  /\ \A k \in 1..Len(resetOne) :
       resetOne' = RemoveAt(resetOne, k) => othersUnchanged(resetOne[k])

\* C26 as stated: a single-image reprocess of x leaves every other image's
\* InputImage state and ProcessedImage record unchanged, and when it has
\* delivered, the result set holds exactly one record for x.
C26_ReprocessFrame_AlwaysOne ==
  [][/\ reprocessFrame
     /\ \A k \in 1..Len(singles) :
          (Len(singles') < Len(singles) /\ singles' = RemoveAt(singles, k))
            => /\ othersUnchanged(singles[k].imageId)
               /\ Cardinality(recordsOf(processed', singles[k].imageId)) = 1]_vars

\* C26: a single-image reprocess of x leaves every other image's InputImage
\* state and ProcessedImage record unchanged; when it succeeds the result set
\* holds exactly one record for x, the new one, and when it fails the result
\* set is as it was.
C26_ReprocessFrame ==
  [][/\ reprocessFrame
     /\ \A k \in 1..Len(singles) :
          (Len(singles') < Len(singles) /\ singles' = RemoveAt(singles, k))
            => /\ othersUnchanged(singles[k].imageId)
               /\ IF singles[k].url \in Urls(processed')
                  THEN \E j \in 1..Len(processed') :
                         /\ recordsOf(processed', singles[k].imageId) = {j}
                         /\ processed'[j].downloadUrl = singles[k].url
                  ELSE processed' = processed]_vars

\* a reprocess has delivered its result next to the record of another image
C26_Witness ==
  /\ resetOne # <<>>
  /\ Len(processed) = 2
  /\ \E j \in 1..2 : processed[j].id = resetOne[1] /\ processed[3 - j].id # resetOne[1]

-----------------------------------------------------------------------------
(* Claims about the encodes of one transform (SpecTransform)               *)

\* the toBlob calls of the transform in fnIn
callsMade == encodeCalls(fnIn[1].input.file, fnIn[1].env)

\* C27: a transform that reaches its encoding performs exactly one encode
\* when the preferred type is PNG or the first encode (quality 0.78) is at
\* most 200*1024 bytes, exactly two (0.78, then 0.60) when the preferred type
\* is JPEG or WEBP and the first encode is larger, never a third, and with two
\* encodes the second blob is the one compared with the original.
C27_EncodeCount ==
  (fnOut # <<>> /\ fnIn[1].env.decoded /\ fnIn[1].env.ctx) =>
    LET file == fnIn[1].input.file
        first == fnIn[1].env.enc[1]
        second == fnIn[1].env.enc[2]
        lossy == preferredType(file) \in {JPEG, WEBP}
    IN /\ Len(callsMade) \in {1, 2}
       /\ Len(callsMade) = 2 <=> (lossy /\ first > 200 * 1024)
       /\ callsMade[1].quality = (IF lossy THEN 78 ELSE NoQuality)
       /\ Len(callsMade) = 2 => callsMade[2].quality = 60
       /\ (Len(callsMade) = 2 /\ fnOut[1] # Null)
            => IF second > file.size
               THEN fnOut[1].blob = file
               ELSE fnOut[1].blob.size = second /\ fnOut[1].blob.data = "encoded"

\* two encodes, and the second blob is the result
C27_Witness ==
  /\ fnOut # <<>>
  /\ fnOut[1] # Null
  /\ Len(callsMade) = 2
  /\ fnIn[1].env.enc[1] > fnIn[1].input.file.size
  /\ fnOut[1].blob.size = fnIn[1].env.enc[2]
  /\ fnOut[1].blob.data = "encoded"
\* C28: in every reachable state the download URL of every ProcessedImage in
\* the result set has not been revoked, after any sequence of batch runs and
\* single-image reprocesses, those whose transform fails included.
C28_UrlsLive ==
  \A k \in 1..Len(processed) : processed[k].downloadUrl \in liveUrls

-----------------------------------------------------------------------------
(* Claims about extractKeywords (SpecExtract)                              *)

\* C29: for every token list produced by analyzeImage the keyword returned by
\* extractKeywords is non-empty and is a hyphen-join of at most 4 parts that
\* are pairwise distinct: no token of the classification result is included
\* twice.
C29_DistinctParts ==
  fnOut # <<>> =>
    LET parts == fnOut[1].parts
    IN /\ Len(parts) \in 1..4
       /\ \A k \in 1..Len(parts) :
            IF fnOut[1].fromName THEN parts[k] # <<>> ELSE parts[k] # ""
       /\ \A j, k \in 1..Len(parts) : j # k => parts[j] # parts[k]

-----------------------------------------------------------------------------
(* Claims about termination (SpecLive)                                     *)

runEnded == batch.pc = "idle" /\ ~isProcessing /\ message \in {"messageDone", "messageFail"}

\* the images of the run that has just ended
lastRunIds == {batch.last.ids[k] : k \in 1..Len(batch.last.ids)}

====
